---------------------------- MODULE Spec2Model ----------------------------
(***************************************************************************)
(* Radar: the signal ingestion, scoring and deduplication pipeline of      *)
(* src/Radar/radar.py, as a state machine.                                 *)
(*                                                                         *)
(* Texts are strings; a character is a string of length 1.  Timestamps    *)
(* are whole days.  An ISO timestamp is <<day>>, a text that               *)
(* datetime.fromisoformat rejects is <<>>.                                 *)
(***************************************************************************)
EXTENDS Integers, Sequences, FiniteSets, TLC

(***************************************************************************)
(* Characters and the regular-expression primitives the patterns use.      *)
(***************************************************************************)
LOWER == "abcdefghijklmnopqrstuvwxyz"
UPPER == "ABCDEFGHIJKLMNOPQRSTUVWXYZ"
DIGITS == "0123456789"

CharAt(s, i) == SubSeq(s, i, i)

InStr(c, s) == \E i \in 1..Len(s) : CharAt(s, i) = c

\* str.lower() on one ASCII character
lower_char(c) ==
    IF InStr(c, UPPER)
    THEN CharAt(LOWER, CHOOSE i \in 1..Len(UPPER) : CharAt(UPPER, i) = c)
    ELSE c

\* str.lower(), character by character (the text is halved to keep the
\* evaluation shallow)
RECURSIVE lower(_)
lower(s) ==
    IF Len(s) = 0 THEN ""
    ELSE IF Len(s) = 1 THEN lower_char(s)
    ELSE LET h == Len(s) \div 2
         IN  lower(SubSeq(s, 1, h)) \o lower(SubSeq(s, h + 1, Len(s)))

\* [a-z0-9]
IsSlugChar(c) == InStr(c, LOWER) \/ InStr(c, DIGITS)
\* \w
IsWordChar(c) == InStr(c, LOWER) \/ InStr(c, UPPER) \/ InStr(c, DIGITS) \/ c = "_"
\* \d
IsDigit(c) == InStr(c, DIGITS)
\* \s
IsSpace(c) == c = " "

\* w occurs at position i of t
MatchAt(t, w, i) ==
    /\ i >= 1
    /\ i + Len(w) - 1 <= Len(t)
    /\ SubSeq(t, i, i + Len(w) - 1) = w

\* \b between positions i-1 and i of s (i in 1..Len(s)+1): exactly one side is \w
BoundaryAt(s, i) ==
    LET before == i > 1 /\ IsWordChar(CharAt(s, i - 1))
        after  == i <= Len(s) /\ IsWordChar(CharAt(s, i))
    IN  before # after

\* The searches below are re.I searches for lower-case patterns w: the text
\* is lower-cased and compared exactly (\w is closed under lower-casing).

\* re.search(w, s, re.I)
Contains(s, w) ==
    LET t == lower(s) IN \E i \in 1..Len(t) : MatchAt(t, w, i)

\* re.search(r"\b(w1|w2|...)\b", s, re.I)
HasAnyWord(s, ws) ==
    LET t == lower(s)
    IN  \E w \in ws : \E i \in 1..Len(t) :
            MatchAt(t, w, i) /\ BoundaryAt(t, i) /\ BoundaryAt(t, i + Len(w))

\* re.search(r"\bw\b", s, re.I)
HasWord(s, w) == HasAnyWord(s, {w})

\* re.search(r"w\b", s, re.I)
HasWordEnd(s, w) ==
    LET t == lower(s)
    IN  \E i \in 1..Len(t) : MatchAt(t, w, i) /\ BoundaryAt(t, i + Len(w))

\* re.search(r"\$\s?\d", s)
HasAmount(s) ==
    \E i \in 1..Len(s) :
        /\ CharAt(s, i) = "$"
        /\ \/ (i + 1 <= Len(s) /\ IsDigit(CharAt(s, i + 1)))
           \/ (i + 2 <= Len(s) /\ IsSpace(CharAt(s, i + 1)) /\ IsDigit(CharAt(s, i + 2)))

Min(a, b) == IF a <= b THEN a ELSE b
Max(a, b) == IF a >= b THEN a ELSE b

(***************************************************************************)
(* slugify and the signal id                                               *)
(***************************************************************************)
\* re.sub(r"[^a-z0-9]+", "-", t), positions i..j of t: every maximal run of
\* other characters becomes one "-", written where the run starts
RECURSIVE sub_runs(_, _, _)
sub_runs(t, i, j) ==
    IF i > j THEN ""
    ELSE IF i = j
    THEN IF IsSlugChar(CharAt(t, i)) THEN CharAt(t, i)
         ELSE IF i > 1 /\ ~IsSlugChar(CharAt(t, i - 1)) THEN ""
         ELSE "-"
    ELSE LET h == (i + j) \div 2
         IN  sub_runs(t, i, h) \o sub_runs(t, h + 1, j)

\* str.strip("-")
strip_dash(t) ==
    LET keep == {i \in 1..Len(t) : CharAt(t, i) # "-"}
    IN  IF keep = {} THEN ""
        ELSE SubSeq(t, CHOOSE i \in keep : \A k \in keep : i <= k,
                       CHOOSE i \in keep : \A k \in keep : i >= k)

slugify(text) ==
    LET t == lower(text)
    IN  strip_dash(sub_runs(t, 1, Len(t)))

ID_MAX_LEN == 128

\* slugify(f"{st}-{dist}-{title}-{link}")[:128]
signal_id(st, dist, title, link) ==
    LET s == slugify(st \o "-" \o dist \o "-" \o title \o "-" \o link)
    IN  SubSeq(s, 1, Min(Len(s), ID_MAX_LEN))

(***************************************************************************)
(* domain_of: urlparse(link).netloc.lower()                                *)
(***************************************************************************)
\* index of the first character of s at or after i that is in stops, else Len(s)+1
find_stop(s, i, stops) ==
    LET hits == {k \in i..Len(s) : InStr(CharAt(s, k), stops)}
    IN  IF hits = {} THEN Len(s) + 1
        ELSE CHOOSE k \in hits : \A m \in hits : k <= m

SCHEME_CHARS == LOWER \o UPPER \o DIGITS \o "+-."

\* urlsplit: a scheme is the text before the first ":" when it starts with a
\* letter and holds only scheme characters
scheme_len(url) ==
    LET c == find_stop(url, 1, ":")
    IN  IF /\ c <= Len(url)
           /\ c > 1
           /\ InStr(CharAt(url, 1), LOWER \o UPPER)
           /\ \A i \in 1..(c - 1) : InStr(CharAt(url, i), SCHEME_CHARS)
        THEN c
        ELSE 0

domain_of(link) ==
    LET rest == SubSeq(link, scheme_len(link) + 1, Len(link))
    IN  IF Len(rest) >= 2 /\ SubSeq(rest, 1, 2) = "//"
        THEN lower(SubSeq(rest, 3, find_stop(rest, 3, "/?#") - 1))
        ELSE ""

(***************************************************************************)
(* Trigger classifier                                                      *)
(***************************************************************************)
TRIG_OTHER == "Other"

\* the patterns of TRIGGERS, in the dictionary's order; an optional group
\* such as maker(space)? is written as its alternatives
TRIGGERS ==
    << [name  |-> "Funding & Facilities",
        words |-> {"levy", "bond", "millage", "capital", "facility", "facilities",
                   "construction", "maker", "makerspace"}],
       [name  |-> "Policy & Strategy",
        words |-> {"strategic plan", "curriculum", "policy",
                   "computer science requirement", "plan"}],
       [name  |-> "People Moves",
        words |-> {"superintendent", "cte director", "stem coordinator", "hired",
                   "appointed", "appointment"}],
       [name  |-> "Programs & Press",
        words |-> {"robotics", "vex", "first robotics", "stem night", "engineering",
                   "makerspace", "duckbowl"}],
       [name  |-> "Procurement",
        words |-> {"rfp", "request for proposal", "quote", "bid", "solicitation",
                   "purchase"}] >>

TriggerNames == {TRIGGERS[i].name : i \in 1..Len(TRIGGERS)} \cup {TRIG_OTHER}

\* a faulty variant: no label when no pattern matches
classify_trigger_unlabelled(text) ==
    IF \E i \in 1..Len(TRIGGERS) : HasAnyWord(text, TRIGGERS[i].words)
    THEN LET first == CHOOSE i \in 1..Len(TRIGGERS) :
                        /\ HasAnyWord(text, TRIGGERS[i].words)
                        /\ \A j \in 1..(i - 1) : ~HasAnyWord(text, TRIGGERS[j].words)
         IN  TRIGGERS[first].name
    ELSE ""

\* a faulty variant: the last matching category wins
classify_trigger_last_match(text) ==
    IF \E i \in 1..Len(TRIGGERS) : HasAnyWord(text, TRIGGERS[i].words)
    THEN LET last == CHOOSE i \in 1..Len(TRIGGERS) :
                        /\ HasAnyWord(text, TRIGGERS[i].words)
                        /\ \A j \in (i + 1)..Len(TRIGGERS) :
                              ~HasAnyWord(text, TRIGGERS[j].words)
         IN  TRIGGERS[last].name
    ELSE TRIG_OTHER

\* text or "": an optional text is <<>> for None and <<s>> for the string s
or_empty(text) == IF text = <<>> THEN "" ELSE text[1]

\* for name, rx in TRIGGERS.items(): if rx.search(text): return name
classify_trigger(text) ==
    IF \E i \in 1..Len(TRIGGERS) : HasAnyWord(text, TRIGGERS[i].words)
    THEN LET first == CHOOSE i \in 1..Len(TRIGGERS) :
                        /\ HasAnyWord(text, TRIGGERS[i].words)
                        /\ \A j \in 1..(i - 1) : ~HasAnyWord(text, TRIGGERS[j].words)
         IN  TRIGGERS[first].name
    ELSE TRIG_OTHER

(***************************************************************************)
(* Relevance scorer                                                        *)
(***************************************************************************)
DEFAULT_THRESHOLD == 70
W_RECENCY_MAX == 25
W_BUDGET_MAX == 20
W_STEM_MAX == 20
W_FIT_MAX == 20
W_SRC_MAX == 15
DEFAULT_FIT == 50

HIGH_TRUST_TLDS == {".k12.", ".gov", ".edu"}
KNOWN_NEWS_HINTS == {"news", "chronicle", "gazette", "press", "daily", "times",
                     "dispatch", "beacon", "abc", "nbc", "cbs", "fox", "mlive", "freep"}

\* an ISO timestamp <<day>>; anything else makes fromisoformat raise
IsIso(p) == Len(p) = 1

\* a faulty variant: the age is taken from a clock read once, on day 100
score_recency_fixed_clock(published_iso, now) ==
    IF ~IsIso(published_iso) THEN 0
    ELSE LET days == 100 - published_iso[1]
         IN  IF days <= 3 THEN W_RECENCY_MAX
             ELSE IF days <= 7 THEN 20
             ELSE IF days <= 30 THEN 12
             ELSE IF days <= 90 THEN 6
             ELSE 0

score_recency(published_iso, now) ==
    IF ~IsIso(published_iso) THEN 0
    ELSE LET days == now - published_iso[1]
         IN  IF days <= 3 THEN W_RECENCY_MAX
             ELSE IF days <= 7 THEN 20
             ELSE IF days <= 30 THEN 12
             ELSE IF days <= 90 THEN 6
             ELSE 0

\* a faulty variant: the sum of the three parts is not capped
score_budget_uncapped(text) ==
    LET a == IF HasAnyWord(text, {"levy", "bond", "millage", "budget", "appropriation"})
             THEN 12 ELSE 0
        b == IF HasAnyWord(text, {"rfp", "request for proposal", "bid", "solicitation",
                                  "quote"})
             THEN 8 ELSE 0
        c == IF HasAmount(text) \/ Contains(text, "million") \/ HasWordEnd(text, "m")
             THEN 6 ELSE 0
    IN  a + b + c

score_budget(text) ==
    LET a == IF HasAnyWord(text, {"levy", "bond", "millage", "budget", "appropriation"})
             THEN 12 ELSE 0
        b == IF HasAnyWord(text, {"rfp", "request for proposal", "bid", "solicitation",
                                  "quote"})
             THEN 8 ELSE 0
        c == IF HasAmount(text) \/ Contains(text, "million") \/ HasWordEnd(text, "m")
             THEN 6 ELSE 0
    IN  Min(a + b + c, W_BUDGET_MAX)

\* a variant that weighs the third pattern (makerspace, ...) 10 instead of 6
score_stem_ten(text) ==
    LET a == IF HasAnyWord(text, {"robotic", "robotics"}) THEN 12 ELSE 0
        b == IF HasWord(text, "stem") THEN 8 ELSE 0
        c == IF HasAnyWord(text, {"engineering", "makerspace", "cte",
                                  "career technical education"})
             THEN 10 ELSE 0
    IN  Min(a + b + c, W_STEM_MAX)

score_stem(text) ==
    LET a == IF HasAnyWord(text, {"robotic", "robotics"}) THEN 12 ELSE 0
        b == IF HasWord(text, "stem") THEN 8 ELSE 0
        c == IF HasAnyWord(text, {"engineering", "makerspace", "cte",
                                  "career technical education"})
             THEN 6 ELSE 0
    IN  Min(a + b + c, W_STEM_MAX)

\* the scout roster is a sequence of district records; fit_score may be missing
fit_score_for(sdb, state, district) ==
    IF \E i \in 1..Len(sdb) :
           sdb[i].state = state /\ lower(sdb[i].district) = lower(district)
    THEN LET d == sdb[CHOOSE i \in 1..Len(sdb) :
                        /\ sdb[i].state = state
                        /\ lower(sdb[i].district) = lower(district)
                        /\ \A j \in 1..(i - 1) :
                              ~(sdb[j].state = state
                                /\ lower(sdb[j].district) = lower(district))]
         IN  IF "fit_score" \in DOMAIN d THEN d.fit_score ELSE DEFAULT_FIT
    ELSE DEFAULT_FIT

\* round(n / d) for n >= 0, d > 0: to the nearest integer, ties to the even one
py_round(n, d) ==
    LET q == n \div d
        r == n % d
    IN  IF 2 * r < d THEN q
        ELSE IF 2 * r > d THEN q + 1
        ELSE IF q % 2 = 0 THEN q ELSE q + 1

\* int(round(max(0, min(100, fs)) * (W_FIT_MAX/100.0)))
score_fit(sdb, state, district) ==
    LET fs == fit_score_for(sdb, state, district)
    IN  py_round(Max(0, Min(100, fs)) * W_FIT_MAX, 100)

score_source(link) ==
    LET dom == domain_of(link)
    IN  IF dom = "" THEN 0
        ELSE IF \E tld \in HIGH_TRUST_TLDS : Contains(dom, tld) THEN W_SRC_MAX
        ELSE IF \E h \in KNOWN_NEWS_HINTS : Contains(dom, h) THEN 12
        ELSE IF HasAnyWord(dom, {"blog", "medium", "substack"}) THEN 4
        ELSE 8

(***************************************************************************)
(* JSON documents and files                                                *)
(***************************************************************************)
\* dict.get(key, default)
get(d, key, default) == IF key \in DOMAIN d THEN d[key] ELSE default

FileAbsent == [kind |-> "absent"]
FileOf(data) == [kind |-> "json", data |-> data]

\* a file that cannot be read or whose text json.load rejects
FileCorrupt == [kind |-> "corrupt"]

\* a JSON object is a record; a JSON array at the top of a document is
\* tagged, to tell it from an object
JsonArray(items) == [json_array |-> items]
is_dict(d) == "json_array" \notin DOMAIN d

\* load_json(path, default): the default when the file does not exist or
\* when reading or parsing it raises; otherwise whatever the document holds
load_json(file, default) == IF file.kind = "json" THEN file.data ELSE default

\* save_json(path, data)
save_json(data) == FileOf(data)

(***************************************************************************)
(* The scout roster, the watchlist and the queries                         *)
(***************************************************************************)
\* scout_master.json: two districts of one state; the second has no fit_score
SCOUT ==
    << [state |-> "XX", district |-> "Lima", source_county |-> "Allen", fit_score |-> 80],
       [state |-> "XX", district |-> "Troy", source_county |-> "Miami"] >>

\* load_watchlist(scout_db_path) without filters: one row per district
load_watchlist(sdb) ==
    [i \in 1..Len(sdb) |->
        [state |-> sdb[i].state, district |-> sdb[i].district,
         source_county |-> get(sdb[i], "source_county", "")]]

\* build_queries: the engines queried for every district, in order
ENGINES == <<"gnews", "bing">>

\* line 405: watch = load_watchlist(scout_db_path)
Watch == load_watchlist(SCOUT)

(***************************************************************************)
(* Feeds                                                                   *)
(***************************************************************************)
T_BOND == "District Board Approves $4M Bond for New STEM Makerspace"
T_LUNCH == "Lunch menu"
T_RFP == "Robotics RFP"
L_K12 == "https://www.lima.k12.xx.us/news/1"
L_BLOG == "http://blog.example.com/p"
L_NEWS == "https://dailynews.com/a"

\* texts no feed of the runs below returns: every pattern of score_budget
\* and score_stem at once, and a link without a host
T_MAX == "Robotics STEM CTE levy bid $5 million"
L_NONE == "not a url"

\* what one <item> of a feed holds: pubDate is <<day>> when parse_rfc822
\* accepts it and <<>> when it does not
ITEM_BOND == [title |-> T_BOND, link |-> L_K12, pubDate |-> <<99>>]
ITEM_LUNCH == [title |-> T_LUNCH, link |-> L_BLOG, pubDate |-> <<>>]
ITEM_OLD == [title |-> T_RFP, link |-> L_NEWS, pubDate |-> <<-30>>]

\* the outcome of fetch_rss for one (district, engine): an exception, bytes
\* that are no XML document, or an RSS document with its items
FetchError == [kind |-> "error", items |-> <<>>]
Malformed == [kind |-> "malformed", items |-> <<>>]
Rss(items) == [kind |-> "rss", items |-> items]
Unset == [kind |-> "unset", items |-> <<>>]

Results == {FetchError, Malformed, Rss(<<ITEM_OLD, ITEM_BOND, ITEM_LUNCH>>)}

\* parse_rss_items(xml_bytes): [] on a ParseError; an unparseable pubDate is now
parse_rss_items(xml, now) ==
    IF xml.kind # "rss" THEN <<>>
    ELSE [i \in 1..Len(xml.items) |->
            [title |-> xml.items[i].title,
             link |-> xml.items[i].link,
             published |-> IF Len(xml.items[i].pubDate) = 1
                           THEN xml.items[i].pubDate ELSE <<now>>]]


(***************************************************************************)
(* Tables of the text functions on the texts the feeds and the store hold  *)
(***************************************************************************)
Titles == {T_BOND, T_LUNCH, T_RFP, T_MAX}
Links == {L_K12, L_BLOG, L_NEWS, L_NONE}
KnownTexts == {t \o " " \o l : t \in Titles, l \in Links}
KnownKeys == {<<d.state, d.district, t, l>> :
                d \in {SCOUT[i] : i \in 1..Len(SCOUT)}, t \in Titles, l \in Links}

trigger_table == [x \in KnownTexts |-> classify_trigger(x)]
budget_table == [x \in KnownTexts |-> score_budget(x)]
stem_table == [x \in KnownTexts |-> score_stem(x)]
source_table == [l \in Links |-> score_source(l)]
id_table == [k \in KnownKeys |-> signal_id(k[1], k[2], k[3], k[4])]

trigger_of(text) ==
    IF text \in KnownTexts THEN trigger_table[text] ELSE classify_trigger(text)
budget_of(text) ==
    IF text \in KnownTexts THEN budget_table[text] ELSE score_budget(text)
stem_of(text) ==
    IF text \in KnownTexts THEN stem_table[text] ELSE score_stem(text)
source_of(link) ==
    IF link \in Links THEN source_table[link] ELSE score_source(link)
id_of(st, dist, title, link) ==
    IF <<st, dist, title, link>> \in KnownKeys
    THEN id_table[<<st, dist, title, link>>]
    ELSE signal_id(st, dist, title, link)


\* lines 307-308: the total and the breakdown of the five sub-scores
score_result(rec, bud, stm, fit, src) ==
    [total |-> rec + bud + stm + fit + src,
     breakdown |-> [recency |-> rec, budget |-> bud, stem |-> stm,
                    fit |-> fit, source |-> src]]

\* lines 300-308; text = f"{title} {link}"
compute_signal_score(sdb, state, district, title, link, published, now) ==
    score_result(score_recency(published, now),
                 budget_of(title \o " " \o link),
                 stem_of(title \o " " \o link),
                 score_fit(sdb, state, district),
                 source_of(link))

(***************************************************************************)
(* Bounds and the inputs of a run                                          *)
(***************************************************************************)
MaxRuns == 2
MaxTicks == 1

DEFAULT_MAX_ITEMS == 6
DEFAULT_SINCE_DAYS == 120
REPORT_MAX == 500

\* the day the first run starts, and by how much the clock may jump
StartDays == {100}
TickSteps == {5, 150}

\* --threshold, --max-items-per, --since-days of one invocation
Configs ==
    [threshold : {DEFAULT_THRESHOLD, 51},
     max_items_per : {DEFAULT_MAX_ITEMS, 2},
     since_days : {DEFAULT_SINCE_DAYS}]

\* records written by an older version: without trigger and breakdown, or
\* without breakdown; their scores are those of the day they were created
LEGACY_LUNCH ==
    [id |-> signal_id("XX", "Lima", T_LUNCH, L_BLOG),
     state |-> "XX", district |-> "Lima", source_county |-> "Allen",
     title |-> T_LUNCH, link |-> L_BLOG, published |-> <<48>>,
     score |-> 51, created_at |-> <<50>>]
LEGACY_RFP ==
    [id |-> signal_id("XX", "Troy", T_RFP, L_NEWS),
     state |-> "XX", district |-> "Troy", source_county |-> "Miami",
     title |-> T_RFP, link |-> L_NEWS, published |-> <<58>>,
     trigger |-> "Programs & Press", score |-> 73, created_at |-> <<60>>]

\* a record of the current version, scored on the day it was created
STORED_RFP ==
    [id |-> signal_id("XX", "Lima", T_RFP, L_NEWS),
     state |-> "XX", district |-> "Lima", source_county |-> "Allen",
     title |-> T_RFP, link |-> L_NEWS, published |-> <<65>>,
     trigger |-> "Programs & Press", score |-> 79,
     breakdown |-> [recency |-> 25, budget |-> 14, stem |-> 12, fit |-> 16,
                    source |-> 12],
     created_at |-> <<66>>]

InitialStores ==
    {FileAbsent, FileOf([signals |-> <<LEGACY_LUNCH, STORED_RFP, LEGACY_RFP>>])}

\* the processes that run the pipeline one after the other
SeqProcs == {"p1"}
Procs == {"p1", "p2"}

Pairs == {<<w, e>> : w \in 1..Len(SCOUT), e \in 1..Len(ENGINES)}

VARIABLES
    disk_db,      \* radar_master.json
    disk_intake,  \* intake_signals.json
    disk_report,  \* radar_report.md
    now,          \* the clock, in days
    proc,         \* per process: its position in run_radar and its locals
    ticks,        \* how often the clock has jumped
    runs,         \* how many runs have started
    stable,       \* the environment repeats itself: same arguments, same feeds
    feed,         \* when stable: what each (district, engine) returned
    last_conf,    \* the arguments of the latest run
    prev_count,   \* the number of stored signals when the latest run ended
    qualified,    \* the ids of the signals whose score met the threshold of
                  \* the run that created them
    call          \* a call of one of the pure functions: arguments and result

vars == <<disk_db, disk_intake, disk_report, now, proc, ticks, runs, stable,
          feed, last_conf, prev_count, qualified, call>>

NONE_ID == "<None>"
NoConf == [threshold |-> 0, max_items_per |-> 0, since_days |-> 0]

NoFetch == [w |-> 0, e |-> 0, kind |-> "none", added |-> 0, logged |-> 0]

IdleProc ==
    [pc |-> "idle", conf |-> NoConf,
     db |-> [signals |-> <<>>], intake |-> [to_scout |-> <<>>],
     migrated |-> FALSE, existing_ids |-> {}, since_cutoff |-> 0,
     new_signals |-> <<>>, trigger_counts |-> <<>>, w |-> 0, e |-> 0,
     \* the lines this run has appended to radar.log
     log |-> <<>>,
     \* the line whose exception ended the run, 0 when there was none
     raised_line |-> 0,
     \* whether another run was in progress at some time during this run
     overlapped |-> FALSE,
     \* history of the run, for stating properties: the store as loaded, the
     \* length of the queue as loaded, the number of fetches, and the latest one
     loaded |-> <<>>, intake_mark |-> 0, nfetch |-> 0, last_fetch |-> NoFetch]

NoCall == [fn |-> "none"]

\* the files, the clock and the processes before the first run
InitWith(stores, queues, stabilities) ==
    /\ disk_db \in stores
    /\ disk_intake \in queues
    /\ disk_report = FileAbsent
    /\ now \in StartDays
    /\ proc = [p \in Procs |-> IdleProc]
    /\ ticks = 0
    /\ runs = 0
    /\ stable \in stabilities
    /\ feed = [pr \in Pairs |-> Unset]
    /\ last_conf = NoConf
    /\ prev_count = 0
    /\ qualified = {}

InitRadar == InitWith(InitialStores, {FileAbsent}, BOOLEAN)

Init == InitRadar /\ call = NoCall


(***************************************************************************)
(* run_radar, statement by statement                                       *)
(***************************************************************************)
Signals(d) == get(d, "signals", <<>>)

\* lines 386-388
migrate_trigger(s) ==
    IF "trigger" \notin DOMAIN s
    THEN s @@ ("trigger" :>
               trigger_of(get(s, "title", "") \o " " \o get(s, "link", "")))
    ELSE s

\* a faulty variant: the backfill also replaces the stored score
migrate_breakdown_rescoring(s, t) ==
    IF "breakdown" \notin DOMAIN s
    THEN LET sc == compute_signal_score(SCOUT, get(s, "state", ""),
                       get(s, "district", ""), get(s, "title", ""),
                       get(s, "link", ""), get(s, "published", <<>>), t)
         IN  [f \in (DOMAIN s \cup {"score", "breakdown"}) |->
                 IF f = "score" THEN sc.total
                 ELSE IF f = "breakdown" THEN sc.breakdown
                 ELSE s[f]]
    ELSE s

\* lines 389-399
migrate_breakdown(s, t) ==
    IF "breakdown" \notin DOMAIN s
    THEN s @@ ("breakdown" :>
               compute_signal_score(SCOUT, get(s, "state", ""),
                   get(s, "district", ""), get(s, "title", ""),
                   get(s, "link", ""), get(s, "published", <<>>), t).breakdown)
    ELSE s

\* lines 385-399: one iteration of the migration loop
migrate_signal(s, t) == migrate_breakdown(migrate_trigger(s), t)

needs_migration(s) == "trigger" \notin DOMAIN s \/ "breakdown" \notin DOMAIN s

\* a faulty variant: the migrated store is left to the end of the run
save_after_migration_never(migrated) == FALSE

\* line 400: whether the migrated store is written
save_after_migration(migrated) == migrated

\* a faulty variant: the index starts empty instead of from the store
initial_ids_empty(d) == {}

\* line 403: existing_ids = { s.get("id") for s in db.get("signals", []) }
initial_ids(d) == {get(Signals(d)[i], "id", NONE_ID) : i \in 1..Len(Signals(d))}

\* a faulty variant: the membership test never finds the identifier
is_known_never(sig_id, existing_ids) == FALSE

\* line 443: if sig_id in existing_ids
is_known(sig_id, existing_ids) == sig_id \in existing_ids

\* a faulty variant: the index is not updated within the run
ids_after_insert_forgets(existing_ids, sig_id) == existing_ids

\* line 461: existing_ids.add(sig_id)
ids_after_insert(existing_ids, sig_id) == existing_ids \cup {sig_id}

\* a faulty variant: no item is too old
too_old_never(pdt, since_cutoff) == FALSE

\* line 437: if pdt < since_cutoff
too_old(pdt, since_cutoff) == pdt < since_cutoff

\* a faulty variant: a score equal to the threshold is not handed off
qualifies_strictly(score, threshold) == score > threshold

\* line 465: if score >= threshold
qualifies(score, threshold) == score >= threshold

\* line 463: trigger_counts[trig] = trigger_counts.get(trig, 0) + 1
count_trigger(counts, trig) ==
    IF trig \in DOMAIN counts
    THEN [counts EXCEPT ![trig] = @ + 1]
    ELSE counts @@ (trig :> 1)

\* lines 466-476
intake_record(w, it, trig, score, t) ==
    [state |-> w.state, district |-> w.district, source_county |-> w.source_county,
     title |-> it.title, link |-> it.link, trigger |-> trig, score |-> score,
     published |-> it.published, created_at |-> <<t>>]

\* lines 446-458
signal_record(w, it, trig, sc, sig_id, t) ==
    [id |-> sig_id, state |-> w.state, district |-> w.district,
     source_county |-> w.source_county, title |-> it.title,
     link |-> it.link, published |-> it.published, trigger |-> trig,
     score |-> sc.total, breakdown |-> sc.breakdown, created_at |-> <<t>>]

\* a faulty variant: the store keeps the signals of this run only
insert_signal_new_only(acc, rec, handoff, threshold) ==
    [acc EXCEPT
        !.db = [@ EXCEPT !.signals = Append(acc.new_signals, rec)],
        !.new_signals = Append(@, rec),
        !.existing_ids = ids_after_insert(@, rec.id),
        !.trigger_counts = count_trigger(@, rec.trigger),
        !.intake = IF qualifies(rec.score, threshold)
                   THEN [@ EXCEPT !.to_scout = Append(@, handoff)]
                   ELSE @]

\* a faulty variant: the new signal is put at the head of the store
insert_signal_at_head(acc, rec, handoff, threshold) ==
    [acc EXCEPT
        !.db = [@ EXCEPT !.signals = <<rec>> \o @],
        !.new_signals = Append(@, rec),
        !.existing_ids = ids_after_insert(@, rec.id),
        !.trigger_counts = count_trigger(@, rec.trigger),
        !.intake = IF qualifies(rec.score, threshold)
                   THEN [@ EXCEPT !.to_scout = Append(@, handoff)]
                   ELSE @]

\* a faulty variant: the record is put at the head of the queue
insert_signal_queue_head(acc, rec, handoff, threshold) ==
    [acc EXCEPT
        !.db = [@ EXCEPT !.signals = Append(@, rec)],
        !.new_signals = Append(@, rec),
        !.existing_ids = ids_after_insert(@, rec.id),
        !.trigger_counts = count_trigger(@, rec.trigger),
        !.intake = IF qualifies(rec.score, threshold)
                   THEN [@ EXCEPT !.to_scout = <<handoff>> \o @]
                   ELSE @]

\* lines 459-476: the new signal is stored, counted and, above the
\* threshold, queued; acc holds db, intake, existing_ids, new_signals and
\* trigger_counts
insert_signal(acc, rec, handoff, threshold) ==
    IF "signals" \notin DOMAIN acc.db
    THEN \* line 459: db["signals"] raises KeyError
         [acc EXCEPT !.raised = TRUE]
    ELSE IF qualifies(rec.score, threshold) /\ "to_scout" \notin DOMAIN acc.intake
    THEN \* line 466: intake["to_scout"] raises KeyError or TypeError
         [acc EXCEPT
            !.db = [@ EXCEPT !.signals = Append(@, rec)],
            !.new_signals = Append(@, rec),
            !.existing_ids = ids_after_insert(@, rec.id),
            !.trigger_counts = count_trigger(@, rec.trigger),
            !.raised = TRUE]
    ELSE [acc EXCEPT
            !.db = [@ EXCEPT !.signals = Append(@, rec)],
            !.new_signals = Append(@, rec),
            !.existing_ids = ids_after_insert(@, rec.id),
            !.trigger_counts = count_trigger(@, rec.trigger),
            !.intake = IF qualifies(rec.score, threshold)
                       THEN [@ EXCEPT !.to_scout = Append(@, handoff)]
                       ELSE @]

\* lines 440-461
insert_if_new(acc, w, it, conf, t, trig, sc, sig_id) ==
    IF is_known(sig_id, acc.existing_ids) THEN acc
    ELSE insert_signal(acc, signal_record(w, it, trig, sc, sig_id, t),
                       intake_record(w, it, trig, sc.total, t), conf.threshold)

\* lines 433-436: the publication day, now when it cannot be parsed
published_day(it, t) == IF IsIso(it.published) THEN it.published[1] ELSE t

\* lines 429-476: the body of `for it in items[:max_items_per]`
process_item(acc, w, it, conf, since_cutoff, t) ==
    IF too_old(published_day(it, t), since_cutoff) THEN acc
    ELSE insert_if_new(acc, w, it, conf, t,
             trigger_of(it.title \o " " \o it.link),
             compute_signal_score(SCOUT, w.state, w.district, it.title, it.link,
                                  it.published, t),
             id_of(w.state, w.district, it.title, it.link))

\* a faulty variant: every item of the feed is looked at
first_items_uncut(items, max_items_per) == items

\* line 428: items[:max_items_per]; a negative bound counts from the end
first_items(items, max_items_per) ==
    IF max_items_per >= 0
    THEN SubSeq(items, 1, Min(Len(items), max_items_per))
    ELSE SubSeq(items, 1, Max(0, Len(items) + max_items_per))

\* a faulty variant: the items of an engine are left at the first one whose
\* identifier is known
RECURSIVE process_items_until_known(_, _, _, _, _, _)
process_items_until_known(acc, w, items, conf, since_cutoff, t) ==
    IF items = <<>> \/ acc.raised THEN acc
    ELSE IF is_known(id_of(w.state, w.district, Head(items).title, Head(items).link),
                     acc.existing_ids)
    THEN acc
    ELSE process_items_until_known(
             process_item(acc, w, Head(items), conf, since_cutoff, t),
             w, Tail(items), conf, since_cutoff, t)

RECURSIVE process_items(_, _, _, _, _, _)
process_items(acc, w, items, conf, since_cutoff, t) ==
    IF items = <<>> \/ acc.raised THEN acc
    ELSE process_items(process_item(acc, w, Head(items), conf, since_cutoff, t),
                       w, Tail(items), conf, since_cutoff, t)

\* lines 413-418: the next district from index i on that has a name
next_district(watch, i) ==
    LET named == {k \in i..Len(watch) : watch[k].district # ""}
    IN  IF named = {} THEN Len(watch) + 1
        ELSE CHOOSE k \in named : \A m \in named : k <= m

\* a faulty variant: a failed fetch leaves the watchlist loop
after_fetch_error_aborts(watch, w, e) == <<Len(watch) + 1, 1>>

\* lines 423-425: what a failed fetch does to the loop
after_fetch_error(watch, w, e) ==
    IF e < Len(ENGINES) THEN <<w, e + 1>> ELSE <<next_district(watch, w + 1), 1>>

\* the position after the engine e of district w has been handled
after_engine(watch, w, e) ==
    IF e < Len(ENGINES) THEN <<w, e + 1>> ELSE <<next_district(watch, w + 1), 1>>


(***************************************************************************)
(* Report and run summary                                                  *)
(***************************************************************************)
\* a faulty variant: equal keys come out in the reverse of their order
order_desc_ties_reversed(keys) ==
    LET n == Len(keys)
        rank(i) == 1 + Cardinality({j \in 1..n : keys[j] > keys[i]})
                     + Cardinality({j \in (i + 1)..n : keys[j] = keys[i]})
    IN  [r \in 1..n |-> CHOOSE i \in 1..n : rank(i) = r]

\* sorted(range(len(keys)), key=keys.__getitem__, reverse=True): the indices
\* by descending key, equal keys in their original order
order_desc(keys) ==
    LET n == Len(keys)
        rank(i) == 1 + Cardinality({j \in 1..n : keys[j] > keys[i]})
                     + Cardinality({j \in 1..(i - 1) : keys[j] = keys[i]})
    IN  [r \in 1..n |-> CHOOSE i \in 1..n : rank(i) = r]

\* x.get("created_at", ""): a missing timestamp sorts before every day
created_key(sig) == IF "created_at" \in DOMAIN sig THEN sig.created_at[1] ELSE -1

\* lines 494-509
write_report(d, threshold, t) ==
    LET sigs == Signals(d)
        ord == order_desc([i \in 1..Len(sigs) |-> created_key(sigs[i])])
        shown == SubSeq(ord, 1, Min(Len(ord), REPORT_MAX))
    IN  FileOf([generated |-> t, threshold |-> threshold,
                entries |-> [k \in 1..Len(shown) |->
                    LET sig == sigs[shown[k]]
                    IN  [district |-> sig.district, state |-> sig.state,
                         title |-> sig.title, trigger |-> get(sig, "trigger", "?"),
                         score |-> sig.score, breakdown |-> sig.breakdown,
                         dt |-> get(sig, "published", <<>>), link |-> sig.link]]])

\* lines 501-507: the keys write_report subscripts
REPORT_KEYS == {"district", "state", "title", "score", "breakdown", "link"}

\* write_report raises KeyError on a listed signal that lacks one of them
report_raises(d) ==
    LET sigs == Signals(d)
        ord == order_desc([i \in 1..Len(sigs) |-> created_key(sigs[i])])
    IN  \E k \in 1..Min(Len(ord), REPORT_MAX) :
            ~(REPORT_KEYS \subseteq DOMAIN sigs[ord[k]])

TOP_N == 5

\* sorted(trigger_counts.keys())
SORTED_TRIGGERS ==
    <<"Funding & Facilities", "Other", "People Moves", "Policy & Strategy",
      "Procurement", "Programs & Press">>

\* lines 483-490: the lines the summary appends to the log
summary_lines(new_signals, trigger_counts) ==
    IF new_signals = <<>> THEN <<>>
    ELSE LET ord == order_desc([i \in 1..Len(new_signals) |-> new_signals[i].score])
             top == SubSeq(ord, 1, Min(Len(ord), TOP_N))
             names == SelectSeq(SORTED_TRIGGERS, LAMBDA k : k \in DOMAIN trigger_counts)
         IN  <<[kind |-> "counts_header"]>>
             \o [k \in 1..Len(names) |->
                    [kind |-> "count", trigger |-> names[k], n |-> trigger_counts[names[k]]]]
             \o <<[kind |-> "top_header"]>>
             \o [k \in 1..Len(top) |->
                    [kind |-> "top", score |-> new_signals[top[k]].score,
                     district |-> new_signals[top[k]].district,
                     title |-> new_signals[top[k]].title]]

(***************************************************************************)
(* Actions                                                                 *)
(***************************************************************************)
\* a run is invoked; a stable environment invokes it as before
Start(p) ==
    /\ proc[p].pc \in {"idle", "done"}
    /\ \A q \in Procs \ {p} : proc[q].pc \in {"idle", "done"}
    /\ runs < MaxRuns
    /\ \E c \in (IF stable /\ runs > 0 THEN {last_conf} ELSE Configs) :
         /\ proc' = [proc EXCEPT ![p] = [IdleProc EXCEPT !.pc = "load_db", !.conf = c]]
         /\ last_conf' = c
    /\ runs' = runs + 1
    /\ UNCHANGED <<disk_db, disk_intake, disk_report, now, ticks, stable, feed,
                   prev_count, qualified, call>>

\* line 380
LoadDb(p) ==
    /\ proc[p].pc = "load_db"
    /\ LET d == load_json(disk_db, [signals |-> <<>>])
       IN  proc' = [proc EXCEPT ![p].db = d, ![p].loaded = Signals(d),
                                ![p].pc = "load_intake"]
    /\ UNCHANGED <<disk_db, disk_intake, disk_report, now, ticks, runs, stable,
                   feed, last_conf, prev_count, qualified, call>>

\* line 381
LoadIntake(p) ==
    /\ proc[p].pc = "load_intake"
    /\ LET q == load_json(disk_intake, [to_scout |-> <<>>])
       IN  proc' = [proc EXCEPT ![p].intake = q, ![p].intake_mark = Len(get(q, "to_scout", <<>>)),
                                ![p].pc = "migrate"]
    /\ UNCHANGED <<disk_db, disk_intake, disk_report, now, ticks, runs, stable,
                   feed, last_conf, prev_count, qualified, call>>

\* lines 385-399 on the whole store
migrate_db(d, t) ==
    IF "signals" \in DOMAIN d
    THEN [d EXCEPT !.signals = [i \in 1..Len(@) |-> migrate_signal(@[i], t)]]
    ELSE d

any_migrated(d) == \E i \in 1..Len(Signals(d)) : needs_migration(Signals(d)[i])

\* the locals of run_radar when the watchlist loop starts at district first
MigrateLocals(me, d, migrated, first, t) ==
    [me EXCEPT
        !.db = d,
        !.migrated = migrated,
        !.existing_ids = initial_ids(d),
        !.since_cutoff = t - me.conf.since_days,
        !.w = first,
        !.e = 1,
        !.pc = IF ~is_dict(me.db) THEN "crashed"
               ELSE IF first > Len(Watch) THEN "save_db" ELSE "fetch",
        !.raised_line = IF ~is_dict(me.db) THEN 385 ELSE 0]

\* lines 383-411: the migration loop, the write it may cause, and the set-up
\* of the watchlist loop; db.get raises AttributeError at line 385 when the
\* document is an array
Migrate(p) ==
    /\ proc[p].pc = "migrate"
    /\ \E d \in {migrate_db(proc[p].db, now)} :
         /\ proc' = [proc EXCEPT ![p] = MigrateLocals(proc[p], d, any_migrated(proc[p].db),
                                                     next_district(Watch, 1), now)]
         /\ disk_db' = IF is_dict(proc[p].db)
                          /\ save_after_migration(any_migrated(proc[p].db))
                       THEN save_json(d) ELSE disk_db
    /\ UNCHANGED <<disk_intake, disk_report, now, ticks, runs, stable, feed,
                   last_conf, prev_count, qualified, call>>

\* lines 421-428: the items of one fetch that the loop looks at
fetched_items(xml, max_items_per, t) ==
    IF xml.kind = "error" THEN <<>>
    ELSE first_items(parse_rss_items(xml, t), max_items_per)

\* lines 424: the line a failed fetch logs
fetch_log(xml, district, engine) ==
    IF xml.kind = "error"
    THEN <<[kind |-> "fetch_error", district |-> district, engine |-> engine]>>
    ELSE <<>>

\* the locals of run_radar after one engine: acc from the item loop, nxt the
\* next position of the loops
FetchLocals(me, xml, acc, nxt, lines) ==
    [me EXCEPT
        !.db = acc.db,
        !.intake = acc.intake,
        !.existing_ids = acc.existing_ids,
        !.new_signals = acc.new_signals,
        !.trigger_counts = acc.trigger_counts,
        !.w = nxt[1],
        !.e = nxt[2],
        !.pc = IF acc.raised THEN "crashed"
               ELSE IF nxt[1] > Len(Watch) THEN "save_db" ELSE "fetch",
        !.raised_line = IF ~acc.raised THEN 0
                        ELSE IF "signals" \notin DOMAIN acc.db THEN 459 ELSE 466,
        !.log = @ \o lines,
        !.nfetch = @ + 1,
        !.last_fetch = [w |-> me.w, e |-> me.e, kind |-> xml.kind,
                        added |-> Len(acc.new_signals) - Len(me.new_signals),
                        logged |-> Len(lines)]]

\* the signals from index k on whose score is at least the threshold
NewQualified(sigs, k, threshold) ==
    {sigs[i].id : i \in {n \in k..Len(sigs) : sigs[n].score >= threshold}}

\* lines 420-476: one engine of one district: the fetch and the item loop
Fetch(p) ==
    /\ proc[p].pc = "fetch"
    /\ \E me \in {proc[p]} :
       \E xml \in (IF stable /\ feed[<<me.w, me.e>>] # Unset
                   THEN {feed[<<me.w, me.e>>]} ELSE Results) :
       \E acc \in {process_items(
                      [db |-> me.db, intake |-> me.intake,
                       existing_ids |-> me.existing_ids,
                       new_signals |-> me.new_signals,
                       trigger_counts |-> me.trigger_counts, raised |-> FALSE],
                      Watch[me.w],
                      fetched_items(xml, me.conf.max_items_per, now),
                      me.conf, me.since_cutoff, now)} :
         /\ proc' = [proc EXCEPT ![p] =
                FetchLocals(me, xml, acc,
                    IF xml.kind = "error"
                    THEN after_fetch_error(Watch, me.w, me.e)
                    ELSE after_engine(Watch, me.w, me.e),
                    fetch_log(xml, Watch[me.w].district, ENGINES[me.e]))]
         /\ feed' = IF stable THEN [feed EXCEPT ![<<me.w, me.e>>] = xml] ELSE feed
         /\ qualified' = qualified \cup
                NewQualified(acc.new_signals, Len(me.new_signals) + 1, me.conf.threshold)
    /\ UNCHANGED <<disk_db, disk_intake, disk_report, now, ticks, runs, stable,
                   last_conf, prev_count, call>>

\* line 478
SaveDb(p) ==
    /\ proc[p].pc = "save_db"
    /\ disk_db' = save_json(proc[p].db)
    /\ proc' = [proc EXCEPT ![p].pc = "save_intake"]
    /\ UNCHANGED <<disk_intake, disk_report, now, ticks, runs, stable, feed,
                   last_conf, prev_count, qualified, call>>

\* line 479
SaveIntake(p) ==
    /\ proc[p].pc = "save_intake"
    /\ disk_intake' = save_json(proc[p].intake)
    /\ proc' = [proc EXCEPT ![p].pc = "report"]
    /\ UNCHANGED <<disk_db, disk_report, now, ticks, runs, stable, feed,
                   last_conf, prev_count, qualified, call>>

\* line 480
Report(p) ==
    /\ proc[p].pc = "report"
    /\ IF report_raises(proc[p].db)
       THEN /\ disk_report' = disk_report
            /\ proc' = [proc EXCEPT ![p].pc = "crashed", ![p].raised_line = 503]
       ELSE /\ disk_report' = write_report(proc[p].db, proc[p].conf.threshold, now)
            /\ proc' = [proc EXCEPT ![p].pc = "summary"]
    /\ UNCHANGED <<disk_db, disk_intake, now, ticks, runs, stable, feed,
                   last_conf, prev_count, qualified, call>>

\* lines 482-492
Summary(p) ==
    /\ proc[p].pc = "summary"
    /\ proc' = [proc EXCEPT
           ![p].log = @ \o summary_lines(proc[p].new_signals, proc[p].trigger_counts),
           ![p].pc = "done"]
    /\ prev_count' = Len(Signals(load_json(disk_db, [signals |-> <<>>])))
    /\ UNCHANGED <<disk_db, disk_intake, disk_report, now, ticks, runs, stable, feed,
                   last_conf, qualified, call>>

\* time passes; the clock counts days, a run takes minutes, and a day ends
\* between two runs
Tick ==
    /\ ticks < MaxTicks
    /\ \A p \in Procs : proc[p].pc \in {"idle", "done"}
    /\ \E d \in TickSteps : now' = now + d
    /\ ticks' = ticks + 1
    /\ UNCHANGED <<disk_db, disk_intake, disk_report, proc, runs, stable, feed,
                   last_conf, prev_count, qualified, call>>

Step(p) ==
    \/ Start(p)
    \/ LoadDb(p)
    \/ LoadIntake(p)
    \/ Migrate(p)
    \/ Fetch(p)
    \/ SaveDb(p)
    \/ SaveIntake(p)
    \/ Report(p)
    \/ Summary(p)

Next == (\E p \in SeqProcs : Step(p)) \/ Tick

Spec == Init /\ [][Next]_vars

(***************************************************************************)
(* Runs on documents that are not what run_radar writes                    *)
(***************************************************************************)
\* a record of a version that stored no score
PRE_SCORE ==
    [id |-> signal_id("XX", "Troy", T_LUNCH, L_NEWS),
     state |-> "XX", district |-> "Troy", source_county |-> "Miami",
     title |-> T_LUNCH, link |-> L_NEWS, published |-> <<38>>,
     created_at |-> <<40>>]

\* radar_master.json: unreadable, an object without "signals", an array, and
\* a store holding the older record
StoreDocs ==
    {FileCorrupt, FileOf([version |-> 1]), FileOf(JsonArray(<<>>)),
     FileOf([signals |-> <<PRE_SCORE>>])}

\* intake_signals.json: unreadable, an object without "to_scout", an empty queue
QueueDocs == {FileCorrupt, FileOf([version |-> 1]), FileOf([to_scout |-> <<>>])}

InitStores == InitWith(StoreDocs, QueueDocs, {FALSE}) /\ call = NoCall

\* the statements of a run that has been started
RunStep(p) ==
    \/ LoadDb(p)
    \/ LoadIntake(p)
    \/ Migrate(p)
    \/ Fetch(p)
    \/ SaveDb(p)
    \/ SaveIntake(p)
    \/ Report(p)
    \/ Summary(p)

\* a run that has been started executes its statements one after the other;
\* every fetch returns or raises (urlopen has a timeout)
SpecStores ==
    InitStores /\ [][Next]_vars /\ WF_vars(\E p \in SeqProcs : RunStep(p))


(***************************************************************************)
(* Two invocations at once: nothing in run_radar locks the files           *)
(***************************************************************************)
Running(q) == proc[q].pc \notin {"idle", "done", "crashed"}

\* main() starts run_radar whether or not another process is in one; the
\* feeds answer the two processes alike
StartConc(p) ==
    /\ proc[p].pc \in {"idle", "done"}
    /\ runs < MaxRuns
    /\ \E c \in Configs :
         /\ proc' = [q \in Procs |->
                IF q = p
                THEN [IdleProc EXCEPT !.pc = "load_db", !.conf = c,
                                      !.overlapped = \E o \in Procs \ {p} : Running(o)]
                ELSE IF Running(q) THEN [proc[q] EXCEPT !.overlapped = TRUE]
                ELSE proc[q]]
         /\ last_conf' = c
    /\ runs' = runs + 1
    /\ UNCHANGED <<disk_db, disk_intake, disk_report, now, ticks, stable, feed,
                   prev_count, qualified, call>>

\* what the feeds answer while the two runs last: the first engine of the
\* first district answers anything, the others are down
ConcFeeds ==
    {[pr \in Pairs |-> IF pr = <<1, 1>> THEN x ELSE FetchError] : x \in Results}

InitConc ==
    /\ disk_db \in InitialStores
    /\ disk_intake = FileAbsent
    /\ disk_report = FileAbsent
    /\ now \in StartDays
    /\ proc = [p \in Procs |-> IdleProc]
    /\ ticks = 0
    /\ runs = 0
    /\ stable = TRUE
    /\ feed \in ConcFeeds
    /\ last_conf = NoConf
    /\ prev_count = 0
    /\ qualified = {}
    /\ call = NoCall

NextConc == \E p \in Procs : StartConc(p) \/ RunStep(p)

SpecConc == InitConc /\ [][NextConc]_vars

(***************************************************************************)
(* A run that is stopped between its two writes                            *)
(***************************************************************************)
\* the process ends (a kill, a power cut) after save_json of the store,
\* line 478, and before save_json of the queue, line 479
Interrupt(p) ==
    /\ proc[p].pc = "save_intake"
    /\ proc' = [proc EXCEPT ![p].pc = "interrupted"]
    /\ UNCHANGED <<disk_db, disk_intake, disk_report, now, ticks, runs, stable,
                   feed, last_conf, prev_count, qualified, call>>

\* a later invocation, by another process, with the arguments of the
\* stopped one
StartAfter(p) ==
    /\ proc[p].pc \in {"idle", "done"}
    /\ \A q \in Procs \ {p} : proc[q].pc = "interrupted"
    /\ runs < MaxRuns
    /\ proc' = [proc EXCEPT ![p] = [IdleProc EXCEPT !.pc = "load_db",
                                                     !.conf = last_conf]]
    /\ runs' = runs + 1
    /\ UNCHANGED <<disk_db, disk_intake, disk_report, now, ticks, stable, feed,
                   last_conf, prev_count, qualified, call>>

\* the engines answer the later run as they answered the stopped one
InitStopped == InitWith(InitialStores, {FileAbsent}, {TRUE}) /\ call = NoCall

NextStopped ==
    \/ \E p \in SeqProcs : Start(p) \/ RunStep(p) \/ Interrupt(p)
    \/ \E p \in Procs \ SeqProcs : StartAfter(p) \/ RunStep(p)

SpecStopped == InitStopped /\ [][NextStopped]_vars

(***************************************************************************)
(* Runs that insert more signals than the summary lists                    *)
(***************************************************************************)
ITEM_BOND_NEWS == [title |-> T_BOND, link |-> L_NEWS, pubDate |-> <<99>>]
ITEM_MAX_BLOG == [title |-> T_MAX, link |-> L_BLOG, pubDate |-> <<99>>]
\* an item with the title and link of ITEM_OLD and a recent date
ITEM_FRESH == [title |-> T_RFP, link |-> L_NEWS, pubDate |-> <<98>>]

\* feeds with items of equal score, for one district and across districts
SummaryResults ==
    {FetchError,
     Rss(<<ITEM_MAX_BLOG, ITEM_FRESH, ITEM_BOND_NEWS, ITEM_LUNCH>>),
     Rss(<<ITEM_BOND_NEWS, ITEM_BOND, ITEM_MAX_BLOG>>)}

\* the engines answer every run alike
InitSummary ==
    /\ disk_db \in InitialStores
    /\ disk_intake = FileAbsent
    /\ disk_report = FileAbsent
    /\ now \in StartDays
    /\ proc = [p \in Procs |-> IdleProc]
    /\ ticks = 0
    /\ runs = 0
    /\ stable = TRUE
    /\ feed \in [Pairs -> SummaryResults]
    /\ last_conf = NoConf
    /\ prev_count = 0
    /\ qualified = {}
    /\ call = NoCall

SpecSummary == InitSummary /\ [][Next]_vars

(***************************************************************************)
(* The roster of the watchlist provider: slugify and upsert_districts of   *)
(* scout.py                                                                *)
(***************************************************************************)
\* the alternatives of the first pattern of slugify, in its order; an
\* alternative of two words has \s+ between them
DISTRICT_WORDS ==
    << <<"exempted", "village">>, <<"city">>, <<"local">>, <<"village">>,
       <<"public">>, <<"school", "district">>, <<"schools">>,
       <<"public", "schools">>, <<"csd">>, <<"lsd">>, <<"esd">> >>

\* school(s)?, the longer first
SCHOOL_WORDS == << <<"schools">>, <<"school">> >>

\* the first position at or after i of t that holds no space
skip_spaces(t, i) ==
    LET other == {k \in i..Len(t) : ~IsSpace(CharAt(t, k))}
    IN  IF other = {} THEN Len(t) + 1
        ELSE CHOOSE k \in other : \A m \in other : k <= m

\* the position after the match of one alternative at i, 0 without a match
alt_end(t, i, alt) ==
    IF ~MatchAt(t, alt[1], i) THEN 0
    ELSE IF Len(alt) = 1 THEN i + Len(alt[1])
    ELSE LET k == skip_spaces(t, i + Len(alt[1]))
         IN  IF k > i + Len(alt[1]) /\ MatchAt(t, alt[2], k)
             THEN k + Len(alt[2]) ELSE 0

\* the position after the match of \b(alt1|alt2|...)\b at i, 0 without one
words_end(t, i, alts) ==
    LET ok == {k \in 1..Len(alts) :
                 alt_end(t, i, alts[k]) > 0 /\ BoundaryAt(t, alt_end(t, i, alts[k]))}
    IN  IF ~BoundaryAt(t, i) \/ ok = {} THEN 0
        ELSE alt_end(t, i, alts[CHOOSE k \in ok : \A m \in ok : k <= m])

\* re.sub(r"\b(alt1|alt2|...)\b", "", t) from position i on
RECURSIVE sub_words(_, _, _)
sub_words(t, i, alts) ==
    IF i > Len(t) THEN ""
    ELSE CHOOSE r \in {IF e > 0 THEN sub_words(t, e, alts)
                       ELSE CharAt(t, i) \o sub_words(t, i + 1, alts) :
                          e \in {words_end(t, i, alts)}} : TRUE

\* slugify(name) of scout.py, lines 52-58
scout_slugify(name) ==
    IF name = "" THEN ""
    ELSE CHOOSE r \in
            {strip_dash(sub_runs(n, 1, Len(n))) :
                n \in {sub_words(m, 1, SCHOOL_WORDS) :
                          m \in {sub_words(l, 1, DISTRICT_WORDS) :
                                    l \in {lower(name)}}}} : TRUE

\* the names the rosters and the calls below hold, and slugify of each,
\* computed once
ScoutNames ==
    {"Lima", "Troy  Public Schools", "piqua city", "Sidney", "Lima City Schools",
     "Lima CSD", "Troy Local School District", "Piqua"}
scout_slug_table == [n \in ScoutNames |-> scout_slugify(n)]
scout_slug_of(name) ==
    IF name \in ScoutNames THEN scout_slug_table[name] ELSE scout_slugify(name)

\* str.strip() of a name
strip_spaces(s) ==
    LET keep == {i \in 1..Len(s) : ~IsSpace(CharAt(s, i))}
    IN  IF keep = {} THEN ""
        ELSE SubSeq(s, CHOOSE i \in keep : \A k \in keep : i <= k,
                       CHOOSE i \in keep : \A k \in keep : i >= k)

\* dict.get of an index: <<>> for None, <<j>> for the position j, from 0
NoIndex == <<>>

\* lines 80-84: can_idx, the position of the last district with the slug as
\* the slug of its name
can_idx_get(ds, s) ==
    LET hits == {i \in 1..Len(ds) : scout_slug_of(get(ds[i], "district", "")) = s}
    IN  IF hits = {} THEN NoIndex
        ELSE <<(CHOOSE i \in hits : \A k \in hits : i >= k) - 1>>

\* lines 80-84: alias_idx, the same for the aliases
alias_idx_get(ds, s) ==
    LET hits == {i \in 1..Len(ds) :
                    \E a \in 1..Len(get(ds[i], "aliases", <<>>)) :
                        scout_slug_of(ds[i].aliases[a]) = s}
    IN  IF hits = {} THEN NoIndex
        ELSE <<(CHOOSE i \in hits : \A k \in hits : i >= k) - 1>>

\* line 97: can_idx.get(s) or alias_idx.get(s); None and 0 are both false
lookup(can, alias) == IF can # NoIndex /\ can # <<0>> THEN can ELSE alias

\* lines 99-114: the record of a new district
district_record(state, county, nm, d, t) ==
    [district |-> nm, aliases |-> <<>>, state |-> state, source_county |-> county,
     source_counties |-> <<county>>, fit_score |-> get(d, "fit_score", <<>>),
     first_seen_at |-> <<t>>, last_seen_at |-> <<t>>]

\* lines 98-120: the district is appended when neither index knows its slug,
\* and the record at j is touched otherwise
upsert_found(acc, state, county, d, t, nm, s, j) ==
    IF j = NoIndex
    THEN [acc EXCEPT
            !.districts = Append(@, district_record(state, county, nm, d, t)),
            !.can_new = [x \in DOMAIN @ \cup {s} |->
                            IF x = s THEN Len(acc.districts) ELSE @[x]],
            !.added = @ + 1]
    ELSE [acc EXCEPT !.districts[j[1] + 1].last_seen_at = <<t>>]

\* line 97: j = can_idx.get(s) or alias_idx.get(s), can_idx holding the
\* entries of this call over those of the list
upsert_slug(acc, state, county, d, t, nm, s) ==
    CHOOSE r \in
        {upsert_found(acc, state, county, d, t, nm, s, j) :
            j \in {lookup(IF s \in DOMAIN acc.can_new THEN <<acc.can_new[s]>>
                          ELSE can_idx_get(acc.old, s),
                          alias_idx_get(acc.old, s))}} : TRUE

\* lines 95-96: a district without a name is skipped; s = slugify(nm)
upsert_name(acc, state, county, d, t, nm) ==
    IF nm = "" THEN acc
    ELSE CHOOSE r \in {upsert_slug(acc, state, county, d, t, nm, s) :
                          s \in {scout_slug_of(nm)}} : TRUE

\* lines 93-120: one iteration of `for d in districts`; acc holds the list of
\* the state, the entries can_idx got in this call, and the count
upsert_one(acc, state, county, d, t) ==
    CHOOSE r \in {upsert_name(acc, state, county, d, t, nm) :
                     nm \in {strip_spaces(get(d, "district", ""))}} : TRUE

RECURSIVE upsert_all(_, _, _, _, _)
upsert_all(acc, state, county, districts, t) ==
    IF districts = <<>> THEN acc
    ELSE CHOOSE r \in
            {upsert_all(a, state, county, Tail(districts), t) :
                a \in {upsert_one(acc, state, county, Head(districts), t)}} : TRUE

\* upsert_districts(master, overrides, state, county, districts) on the
\* district list of the state: the list afterwards and the number added
upsert_districts(st, state, county, districts, t) ==
    CHOOSE r \in
        {[districts |-> acc.districts, added |-> acc.added] :
            acc \in {upsert_all([districts |-> st, old |-> st, can_new |-> <<>>,
                                 added |-> 0], state, county, districts, t)}} : TRUE

(***************************************************************************)
(* The pure functions, applied to arguments drawn from bounded sets        *)
(***************************************************************************)
\* a link whose slug alone is longer than the identifier
L_LONG == "http://x.gov/aaaaaaaaaaaaaaaaaaaaaaaaaaaaaaaaaaaaaaaaaaaaaaaaaaaaaaaaaaaa"
            \o "aaaaaaaaaaaaaaaaaaaaaaaaaaaaaaaaaaaaaaaaaaaaaaaaaaaaaaaaaaaaaaaaaaaaaaaa/"

\* (state, district, title, link) tuples an item of a feed can have
IdTuples ==
    {<<"XX", d, t, l>> :
        d \in {"Lima", "Lima-North"},
        t \in {"Bond", "bond!", "North Bond", "Bond vote"},
        l \in {"http://x.gov/a", "http://x.gov/A", L_LONG \o "1", L_LONG \o "2"}}

\* ratings a roster can hold, in and out of 0..100
FitScores == {-20, 0, 7, 50, 80, 100, 250}

\* rosters: the target rated, the target without a rating, the target unknown
ScoreRosters ==
    {<<[state |-> "XX", district |-> "Lima", source_county |-> "Allen",
        fit_score |-> fs]>> : fs \in FitScores}
    \cup {<<[state |-> "XX", district |-> "Lima", source_county |-> "Allen"]>>, <<>>}

\* publication days on both sides of every recency step as seen from day 100,
\* one in the future, and a timestamp that does not parse
ScorePublished ==
    {<<>>, <<105>>, <<97>>, <<96>>, <<93>>, <<92>>, <<70>>, <<69>>, <<10>>, <<9>>}

ScoreArgs ==
    [sdb : ScoreRosters, title : {T_BOND, T_LUNCH, T_MAX},
     link : {L_K12, L_BLOG, L_NEWS, L_NONE}, published : ScorePublished,
     now : StartDays]

\* texts for the classifier: none, empty, no keyword, keywords inside longer
\* words, one category, and several categories with the later one in the
\* majority
ClassifyTexts ==
    {<<>>, <<"">>, <<"Lunch menu">>, <<"bonded vagabond">>, <<"BOND passes">>,
     <<"Bid request">>, <<"Hired CTE director">>, <<"Makerspace opens">>,
     <<"New bond, robotics, VEX and engineering">>,
     <<"Robotics team buys via RFP">>,
     <<"Superintendent unveils strategic plan">>,
     <<"Quote: policy on purchase, bid and RFP">>}

\* two calls of the scorer for the same target, title and link
TwiceArgs ==
    [sdb : {SCOUT, <<>>}, title : {T_BOND, T_LUNCH}, link : {L_K12, L_BLOG},
     published_a : {<<>>, <<60>>, <<96>>, <<101>>},
     published_b : {<<>>, <<60>>, <<96>>, <<101>>},
     now_a : {100, 105}, now_b : {100, 105}]

\* what an engine may answer in the runs that are compared
OrderResults ==
    {FetchError, Rss(<<ITEM_OLD, ITEM_BOND, ITEM_LUNCH>>),
     Rss(<<ITEM_LUNCH, ITEM_BOND, ITEM_FRESH>>)}

\* the (district, engine) pairs in the order of the loops of lines 413-420
RECURSIVE pairs_from(_, _, _)
pairs_from(watch, w, e) ==
    IF w > Len(watch) THEN <<>>
    ELSE <<(<<w, e>>)>> \o pairs_from(watch, after_engine(watch, w, e)[1],
                                      after_engine(watch, w, e)[2])

SourceOrder == pairs_from(Watch, next_district(Watch, 1), 1)

\* the orders of the same pairs with the districts permuted and, within
\* each district, the engines
IsGrouped(order) ==
    \A i, j, k \in 1..Len(order) :
        (i < j /\ j < k /\ order[i][1] = order[k][1]) => order[j][1] = order[i][1]

PairOrders ==
    {order \in [1..Len(SourceOrder) -> Pairs] :
        /\ \A pr \in Pairs : \E i \in 1..Len(SourceOrder) : order[i] = pr
        /\ IsGrouped(order)}

\* lines 413-476 with the pairs taken in the given order
RECURSIVE run_pairs(_, _, _, _, _, _)
run_pairs(acc, order, feeds, conf, since_cutoff, t) ==
    IF order = <<>> THEN acc
    ELSE run_pairs(
             process_items(acc, Watch[Head(order)[1]],
                 fetched_items(feeds[Head(order)], conf.max_items_per, t),
                 conf, since_cutoff, t),
             Tail(order), feeds, conf, since_cutoff, t)

\* lines 380-476: a run on the store file, the pairs taken in the given order
run_in_order(file, order, feeds, conf, t) ==
    LET d == migrate_db(load_json(file, [signals |-> <<>>]), t)
    IN  run_pairs([db |-> d, intake |-> [to_scout |-> <<>>],
                   existing_ids |-> initial_ids(d), new_signals |-> <<>>,
                   trigger_counts |-> <<>>, raised |-> FALSE],
                  order, feeds, conf, t - conf.since_days, t)

OrderArgs ==
    [file : InitialStores, feeds : [Pairs -> OrderResults],
     conf : {c \in Configs : c.threshold = DEFAULT_THRESHOLD},
     order : PairOrders, now : StartDays]

\* district lists of a state before the call: none, one district with an
\* alias, two districts without
LIMA_CITY ==
    [district |-> "Lima City Schools", aliases |-> <<"Lima CSD">>, state |-> "XX",
     source_county |-> "Allen", source_counties |-> <<"Allen">>, fit_score |-> <<80>>,
     first_seen_at |-> <<90>>, last_seen_at |-> <<90>>]
TROY_LOCAL ==
    [district |-> "Troy Local School District", aliases |-> <<>>, state |-> "XX",
     source_county |-> "Miami", source_counties |-> <<"Miami">>, fit_score |-> <<>>,
     first_seen_at |-> <<90>>, last_seen_at |-> <<90>>]
PIQUA ==
    [district |-> "Piqua", aliases |-> <<>>, state |-> "XX",
     source_county |-> "Miami", source_counties |-> <<"Miami">>, fit_score |-> <<>>,
     first_seen_at |-> <<90>>, last_seen_at |-> <<90>>]
Rosters == {<<>>, <<LIMA_CITY>>, <<TROY_LOCAL, PIQUA>>}

\* the districts of one call: names that are new, known by name, known by
\* alias, written differently, or empty
UpsertNames == {"Lima", "Troy  Public Schools", " piqua city ", "Sidney", ""}
UpsertLists ==
    {<<[district |-> a]>> : a \in UpsertNames}
        \cup {<<[district |-> a], [district |-> b]>> : a, b \in UpsertNames}

UpsertArgs == [st : Rosters, districts : UpsertLists, now : StartDays]

InitPure ==
    /\ InitRadar
    /\ disk_db = FileAbsent
    /\ stable = FALSE
    /\ \/ \E a \in IdTuples, b \in IdTuples :
            call = [fn |-> "signal_id", args |-> [a |-> a, b |-> b],
                    done |-> FALSE, out |-> [a |-> "", b |-> ""]]
       \/ \E x \in ScoreArgs :
            call = [fn |-> "compute_signal_score", args |-> x,
                    done |-> FALSE, out |-> score_result(0, 0, 0, 0, 0)]
       \/ \E x \in ClassifyTexts :
            call = [fn |-> "classify_trigger", args |-> x, done |-> FALSE, out |-> ""]
       \/ \E x \in TwiceArgs :
            call = [fn |-> "score_twice", args |-> x, done |-> FALSE,
                    out |-> [a |-> score_result(0, 0, 0, 0, 0),
                             b |-> score_result(0, 0, 0, 0, 0)]]
       \/ \E x \in UpsertArgs :
            call = [fn |-> "upsert_twice", args |-> x, done |-> FALSE,
                    out |-> [first |-> [districts |-> <<>>, added |-> 0],
                             second |-> [districts |-> <<>>, added |-> 0]]]
       \/ \E x \in OrderArgs :
            call = [fn |-> "run_in_order", args |-> x, done |-> FALSE,
                    out |-> [permuted |-> <<>>, source |-> <<>>,
                             new_permuted |-> <<>>, new_source |-> <<>>]]

\* line 442 for two items
CallSignalId ==
    /\ call.fn = "signal_id"
    /\ ~call.done
    /\ call' = [call EXCEPT
           !.done = TRUE,
           !.out = [a |-> id_of(call.args.a[1], call.args.a[2],
                                call.args.a[3], call.args.a[4]),
                    b |-> id_of(call.args.b[1], call.args.b[2],
                                call.args.b[3], call.args.b[4])]]
    /\ UNCHANGED <<disk_db, disk_intake, disk_report, now, proc, ticks, runs,
                   stable, feed, last_conf, prev_count, qualified>>

\* line 441 for one item of the district Lima
CallScore ==
    /\ call.fn = "compute_signal_score"
    /\ ~call.done
    /\ call' = [call EXCEPT
           !.done = TRUE,
           !.out = compute_signal_score(call.args.sdb, "XX", "Lima",
                       call.args.title, call.args.link, call.args.published,
                       call.args.now)]
    /\ UNCHANGED <<disk_db, disk_intake, disk_report, now, proc, ticks, runs,
                   stable, feed, last_conf, prev_count, qualified>>

\* lines 252-256
CallClassify ==
    /\ call.fn = "classify_trigger"
    /\ ~call.done
    /\ call' = [call EXCEPT !.done = TRUE,
                            !.out = classify_trigger(or_empty(call.args))]
    /\ UNCHANGED <<disk_db, disk_intake, disk_report, now, proc, ticks, runs,
                   stable, feed, last_conf, prev_count, qualified>>

\* line 441, or lines 390-397, at two times
CallScoreTwice ==
    /\ call.fn = "score_twice"
    /\ ~call.done
    /\ call' = [call EXCEPT
           !.done = TRUE,
           !.out = [a |-> compute_signal_score(call.args.sdb, "XX", "Lima",
                              call.args.title, call.args.link,
                              call.args.published_a, call.args.now_a),
                    b |-> compute_signal_score(call.args.sdb, "XX", "Lima",
                              call.args.title, call.args.link,
                              call.args.published_b, call.args.now_b)]]
    /\ UNCHANGED <<disk_db, disk_intake, disk_report, now, proc, ticks, runs,
                   stable, feed, last_conf, prev_count, qualified>>

\* lines 380-476, in the order of the call and in the order of the source
CallRunInOrder ==
    /\ call.fn = "run_in_order"
    /\ ~call.done
    /\ \E a \in {run_in_order(call.args.file, call.args.order, call.args.feeds,
                                call.args.conf, call.args.now)} :
       \E b \in {run_in_order(call.args.file, SourceOrder, call.args.feeds,
                                call.args.conf, call.args.now)} :
         call' = [call EXCEPT
                    !.done = TRUE,
                    !.out = [permuted |-> Signals(a.db), source |-> Signals(b.db),
                             new_permuted |-> a.new_signals,
                             new_source |-> b.new_signals]]
    /\ UNCHANGED <<disk_db, disk_intake, disk_report, now, proc, ticks, runs,
                   stable, feed, last_conf, prev_count, qualified>>

\* upsert_districts, lines 75-124 of scout.py, twice with the same list
CallUpsertTwice ==
    /\ call.fn = "upsert_twice"
    /\ ~call.done
    /\ \E a \in {upsert_districts(call.args.st, "XX", "Allen", call.args.districts,
                                    call.args.now)} :
         call' = [call EXCEPT
                    !.done = TRUE,
                    !.out = [first |-> a,
                             second |-> upsert_districts(a.districts, "XX", "Allen",
                                            call.args.districts, call.args.now)]]
    /\ UNCHANGED <<disk_db, disk_intake, disk_report, now, proc, ticks, runs,
                   stable, feed, last_conf, prev_count, qualified>>

NextPure ==
    \/ CallSignalId
    \/ CallScore
    \/ CallClassify
    \/ CallScoreTwice
    \/ CallRunInOrder
    \/ CallUpsertTwice

SpecPure == InitPure /\ [][NextPure]_vars


(***************************************************************************)
(* Properties                                                              *)
(***************************************************************************)
StoredSignals == Signals(load_json(disk_db, [signals |-> <<>>]))
QueuedRecords == get(load_json(disk_intake, [to_scout |-> <<>>]), "to_scout", <<>>)

AfterSaveDb == {"save_intake", "report", "summary"}
AfterMigrate == {"fetch", "save_db", "save_intake", "report", "summary", "done"}

\* C1: when the environment repeats itself (same arguments, same feed
\* results, files untouched in between), a run that follows a completed run
\* inserts no signal, and the store it writes holds as many signals as the
\* store the previous run left.
C1_SecondRunInsertsNothing ==
    \A p \in Procs :
        (stable /\ runs >= 2) =>
            /\ proc[p].new_signals = <<>>
            /\ proc[p].pc \in AfterSaveDb => Len(StoredSignals) = prev_count

\* the second run is over, it fetched a feed with items again, and the first
\* run had inserted signals
C1_Witness ==
    /\ stable /\ runs = 2
    /\ proc["p1"].pc = "summary"
    /\ proc["p1"].last_fetch.kind = "rss"
    /\ prev_count >= 2
    /\ Len(proc["p1"].loaded) = prev_count
    /\ Len(StoredSignals) = prev_count

DistinctIds(sigs) ==
    \A i, j \in 1..Len(sigs) : i # j => sigs[i].id # sigs[j].id

SameItem(r, sig) ==
    /\ r.state = sig.state /\ r.district = sig.district
    /\ r.title = sig.title /\ r.link = sig.link

OnePerItem(sigs) ==
    \A i, j \in 1..Len(sigs) : SameItem(sigs[i], sigs[j]) => i = j

\* C2: no two signals of the store share an identifier, in the file and in
\* the copy every run works on; an item (same target, title and link) that
\* several engines return is stored once.
C2_IdsUnique ==
    /\ DistinctIds(StoredSignals) /\ OnePerItem(StoredSignals)
    /\ \A p \in Procs :
          DistinctIds(Signals(proc[p].db)) /\ OnePerItem(Signals(proc[p].db))

\* both engines of the first district returned the same items in one run, and
\* the store holds the bond item of that district
C2_Witness ==
    /\ stable /\ runs = 1
    /\ proc["p1"].pc = "done"
    /\ feed[<<1, 1>>].kind = "rss" /\ feed[<<1, 2>>].kind = "rss"
    /\ \E i \in 1..Len(StoredSignals) :
          /\ StoredSignals[i].district = Watch[1].district
          /\ StoredSignals[i].title = T_BOND
          /\ StoredSignals[i].link = L_K12

\* the fields of a signal that a queue record copies
HandOff(sig) ==
    [state |-> sig.state, district |-> sig.district,
     source_county |-> sig.source_county, title |-> sig.title, link |-> sig.link,
     trigger |-> sig.trigger, score |-> sig.score, published |-> sig.published,
     created_at |-> sig.created_at]

Above(sigs, threshold) == SelectSeq(sigs, LAMBDA sig : sig.score >= threshold)

\* C3: the records a run appends to the queue are exactly the signals it
\* inserted whose score is at least the run's threshold, in the order of
\* insertion; a signal below the threshold is stored and not queued.
C3_QueueIsThresholdGate ==
    \A p \in Procs :
        LET queue == proc[p].intake.to_scout
            gated == Above(proc[p].new_signals, proc[p].conf.threshold)
        IN  /\ Len(queue) = proc[p].intake_mark + Len(gated)
            /\ \A k \in 1..Len(gated) :
                  queue[proc[p].intake_mark + k] = HandOff(gated[k])
            /\ \A k \in 1..Len(proc[p].new_signals) :
                  \E i \in 1..Len(Signals(proc[p].db)) :
                      Signals(proc[p].db)[i] = proc[p].new_signals[k]
            /\ proc[p].pc \in {"report", "summary", "done"} =>
                  QueuedRecords = queue

\* a run has inserted a signal whose score equals its threshold, one above it
\* and one below it, and has written the queue
C3_Witness ==
    /\ proc["p1"].pc = "done"
    /\ LET sigs == proc["p1"].new_signals
           thr == proc["p1"].conf.threshold
       IN  /\ \E k \in 1..Len(sigs) : sigs[k].score = thr
           /\ \E k \in 1..Len(sigs) : sigs[k].score > thr
           /\ \E k \in 1..Len(sigs) : sigs[k].score < thr
    /\ Len(QueuedRecords) >= 2

Completed == \A p \in Procs : proc[p].pc \in {"idle", "done"}

TimesQueued(sig) ==
    Cardinality({k \in 1..Len(QueuedRecords) : SameItem(QueuedRecords[k], sig)})

\* C4: after any sequence of completed runs, a stored signal has one queue
\* record if its score met the threshold of the run that created it, and
\* none otherwise; fetching the item again adds no record.
C4_QueuedOnceAtCreation ==
    Completed =>
        \A i \in 1..Len(StoredSignals) :
            TimesQueued(StoredSignals[i]) =
                IF StoredSignals[i].id \in qualified THEN 1 ELSE 0

\* two runs are over; the second fetched again a feed holding the bond item,
\* which the first had stored and queued for the same district
C4_Witness ==
    /\ runs = 2
    /\ proc["p1"].pc = "done"
    /\ proc["p1"].last_fetch.kind = "rss"
    /\ proc["p1"].new_signals = <<>>
    /\ \E i \in 1..Len(StoredSignals) :
          /\ StoredSignals[i].district = Watch[proc["p1"].last_fetch.w].district
          /\ StoredSignals[i].title = T_BOND
          /\ StoredSignals[i].id \in qualified
          /\ TimesQueued(StoredSignals[i]) = 1

\* C5: the identifier is injective on (state, district, title, link): two
\* tuples that differ in a component get different identifiers.
C5_IdInjective ==
    (call.fn = "signal_id" /\ call.done /\ call.args.a # call.args.b) =>
        call.out.a # call.out.b

\* C6: every sub-score lies between 0 and its maximum, the total lies between
\* 0 and 100, and the total is the sum of the five values of the breakdown.
C6_ScoreBounds ==
    (call.fn = "compute_signal_score" /\ call.done) =>
        LET b == call.out.breakdown
        IN  /\ b.recency \in 0..W_RECENCY_MAX
            /\ b.budget \in 0..W_BUDGET_MAX
            /\ b.stem \in 0..W_STEM_MAX
            /\ b.fit \in 0..W_FIT_MAX
            /\ b.source \in 0..W_SRC_MAX
            /\ call.out.total \in 0..100
            /\ call.out.total = b.recency + b.budget + b.stem + b.fit + b.source

\* a text matching every pattern of score_budget and of score_stem, a fresh
\* date, a rating above 100 and a trusted domain: every sub-score at its
\* maximum, two of them capped
C6_Witness ==
    /\ call.fn = "compute_signal_score" /\ call.done
    /\ call.args.title = T_MAX
    /\ call.args.sdb # <<>> /\ get(call.args.sdb[1], "fit_score", 0) > 100
    /\ call.out.total = 100
    /\ call.out.breakdown.budget = W_BUDGET_MAX
    /\ call.out.breakdown.stem = W_STEM_MAX

\* the item of the worked scenario as a stored signal: the bond title, the
\* .k12.xx.us link, a target rated 80, published the day before
BondScenario(sig) ==
    /\ sig.title = T_BOND
    /\ sig.link = L_K12
    /\ fit_score_for(SCOUT, sig.state, sig.district) = 80
    /\ sig.created_at[1] - sig.published[1] = 1

BondOutcome(sig, stem, total) ==
    /\ sig.trigger = "Funding & Facilities"
    /\ sig.breakdown = [recency |-> 25, budget |-> 18, stem |-> stem, fit |-> 16,
                        source |-> 15]
    /\ sig.score = total
    /\ sig.score >= DEFAULT_THRESHOLD

QueuedByRun(p, sig) ==
    Cardinality({k \in (proc[p].intake_mark + 1)..Len(proc[p].intake.to_scout) :
                    SameItem(proc[p].intake.to_scout[k], sig)})

BondScenarioYields(stem, total) ==
    \A p \in Procs :
        \A k \in 1..Len(proc[p].new_signals) :
            BondScenario(proc[p].new_signals[k]) =>
                /\ BondOutcome(proc[p].new_signals[k], stem, total)
                /\ proc[p].conf.threshold = DEFAULT_THRESHOLD =>
                      QueuedByRun(p, proc[p].new_signals[k]) = 1

\* C7 as the code has it: the item of the worked scenario is classified
\* "Funding & Facilities", scores recency 25, budget 18, stem 14 (STEM 8 and
\* makerspace 6), fit 16, source 15, in total 88, which clears the default
\* threshold 70, and the run queues one record for it.
C7_BondScenario88 == BondScenarioYields(14, 88)

\* C7 as written: the same item scores stem 18 and in total 92.
C7_BondScenario92 == BondScenarioYields(18, 92)

\* a run at the default threshold is over whose feeds gave it that one item
\* to insert: one signal in the store, one record in the queue
C7_Witness ==
    /\ proc["p1"].pc = "done"
    /\ proc["p1"].conf.threshold = DEFAULT_THRESHOLD
    /\ Len(proc["p1"].new_signals) = 1
    /\ BondScenario(proc["p1"].new_signals[1])
    /\ StoredSignals = proc["p1"].new_signals
    /\ QueuedRecords = <<HandOff(proc["p1"].new_signals[1])>>

Keeps(old, new) ==
    /\ DOMAIN old \subseteq DOMAIN new
    /\ DOMAIN new \subseteq DOMAIN old \cup {"trigger", "breakdown"}
    /\ \A f \in DOMAIN old : new[f] = old[f]
    /\ ~needs_migration(old) => new = old

\* C8: migration only adds trigger and breakdown where they are missing:
\* every field a loaded signal had keeps its value, in the run's copy and in
\* the file, and a signal that had both fields is the same record afterwards.
C8_MigrationAddsOnly ==
    \A p \in Procs :
        proc[p].pc \in AfterMigrate =>
            \A i \in 1..Len(proc[p].loaded) :
                /\ Keeps(proc[p].loaded[i], Signals(proc[p].db)[i])
                /\ Keeps(proc[p].loaded[i], StoredSignals[i])

\* the migration has just run on a store with a signal lacking both fields,
\* one lacking the breakdown and one complete, and has written the store
C8_Witness ==
    /\ proc["p1"].pc = "fetch" /\ proc["p1"].nfetch = 0
    /\ proc["p1"].migrated
    /\ \E i \in 1..Len(proc["p1"].loaded) :
          /\ DOMAIN proc["p1"].loaded[i] \cap {"trigger", "breakdown"} = {}
          /\ {"trigger", "breakdown"} \subseteq DOMAIN StoredSignals[i]
          /\ StoredSignals[i].score = proc["p1"].loaded[i].score
    /\ \E i \in 1..Len(proc["p1"].loaded) :
          DOMAIN proc["p1"].loaded[i] \cap {"trigger", "breakdown"} = {"trigger"}
    /\ \E i \in 1..Len(proc["p1"].loaded) : ~needs_migration(proc["p1"].loaded[i])

Lacking(sigs) == \E i \in 1..Len(sigs) : needs_migration(sigs[i])

\* C9: when a loaded signal lacks trigger or breakdown, the store with the
\* backfilled fields is in the file before the first target is fetched,
\* whether or not the run inserts anything; from the migration step on no
\* signal of the store lacks a field; the following run migrates nothing.
C9_MigrationPersisted ==
    \A p \in Procs :
        proc[p].pc \in AfterMigrate =>
            /\ ~Lacking(Signals(proc[p].db))
            /\ ~Lacking(StoredSignals)
            /\ proc[p].migrated = Lacking(proc[p].loaded)
            /\ (Lacking(proc[p].loaded) /\ proc[p].nfetch = 0) =>
                  disk_db = FileOf(proc[p].db)
            /\ runs >= 2 => ~proc[p].migrated

\* the second run is over; it loaded the migrated records of the first run,
\* which had inserted nothing, and had nothing to migrate
C9_Witness ==
    /\ runs = 2
    /\ proc["p1"].pc = "done"
    /\ ~proc["p1"].migrated
    /\ Len(proc["p1"].loaded) = 3
    /\ \E i \in 1..Len(proc["p1"].loaded) :
          /\ proc["p1"].loaded[i].id = LEGACY_LUNCH.id
          /\ {"trigger", "breakdown"} \subseteq DOMAIN proc["p1"].loaded[i]

\* the position of the loops after the pair (w, e)
Successor(w, e) == IF e < Len(ENGINES) THEN <<w, e + 1>> ELSE <<w + 1, 1>>

FetchErrors(lines) == SelectSeq(lines, LAMBDA l : l.kind = "fetch_error")

\* C10: a failed fetch adds no signal and logs one failure entry naming the
\* district and the engine; the loops go on with the next pair; every pair
\* has been fetched when the store is saved, and the signals the other pairs
\* brought are in the saved store.
C10_FetchFailureIsolated ==
    \A p \in Procs :
        LET lf == proc[p].last_fetch
        IN  /\ lf.kind = "error" =>
                  /\ lf.added = 0
                  /\ lf.logged = 1
                  /\ proc[p].pc \in {"fetch", "save_db"} =>
                        /\ <<proc[p].w, proc[p].e>> = Successor(lf.w, lf.e)
                        /\ proc[p].log[Len(proc[p].log)] =
                              [kind |-> "fetch_error",
                               district |-> Watch[lf.w].district,
                               engine |-> ENGINES[lf.e]]
            /\ lf.kind \in {"rss", "malformed"} => lf.logged = 0
            /\ Len(FetchErrors(proc[p].log)) <= proc[p].nfetch
            /\ proc[p].pc \in {"save_db", "save_intake", "report", "summary", "done"} =>
                  proc[p].nfetch = Cardinality(Pairs)
            /\ proc[p].pc \in {"save_intake", "report", "summary", "done"} =>
                  /\ disk_db = FileOf(proc[p].db)
                  /\ \A k \in 1..Len(proc[p].new_signals) :
                        \E i \in 1..Len(StoredSignals) :
                            StoredSignals[i] = proc[p].new_signals[k]

\* the first fetch of a run failed, and the run went on to store signals of
\* the same district from its other engine and of the next district
C10_Witness ==
    /\ proc["p1"].pc = "done"
    /\ Len(proc["p1"].log) >= 1
    /\ proc["p1"].log[1] = [kind |-> "fetch_error", district |-> Watch[1].district,
                            engine |-> ENGINES[1]]
    /\ \E k \in 1..Len(proc["p1"].new_signals) :
          proc["p1"].new_signals[k].district = Watch[1].district
    /\ \E i \in 1..Len(StoredSignals) :
          /\ StoredSignals[i].district = Watch[2].district
          /\ StoredSignals[i].created_at = <<now>>

\* the document is a JSON object holding the list of records under key
HoldsList(file, key) == file.kind = "json" /\ key \in DOMAIN file.data

\* C11: whatever the store and the queue documents hold, the run works on
\* an empty collection in place of a document that is absent, unreadable,
\* unparseable or not of the expected shape, and no exception ends it.
C11_MalformedStateRecovered ==
    \A p \in Procs :
        /\ proc[p].raised_line = 0
        /\ (proc[p].pc = "load_intake" /\ ~HoldsList(disk_db, "signals")) =>
              proc[p].db = [signals |-> <<>>]
        /\ (proc[p].pc = "migrate" /\ ~HoldsList(disk_intake, "to_scout")) =>
              proc[p].intake = [to_scout |-> <<>>]

\* C12: every run that has been started reaches the end of run_radar, and
\* when it is there the store and the queue files hold what the run
\* computed; no exception ends a run.
C12_RunEndsPersisted ==
    /\ \A p \in Procs : (proc[p].pc = "load_db") ~> (proc[p].pc = "done")
    /\ [](\A p \in Procs :
            proc[p].pc = "done" =>
                disk_db = FileOf(proc[p].db) /\ disk_intake = FileOf(proc[p].intake))

\* the stored signal an entry of the report renders, and its creation day
Rendered(entry) ==
    {i \in 1..Len(StoredSignals) : SameItem(entry, StoredSignals[i])}

CreatedOfEntry(entry) ==
    created_key(StoredSignals[CHOOSE i \in Rendered(entry) : TRUE])

\* the report lists min(500, n) stored signals, newest first, and none it
\* leaves out is newer than one it lists
ReportListsNewest(entries) ==
    /\ Len(entries) = Min(Len(StoredSignals), REPORT_MAX)
    /\ \A k \in 1..Len(entries) : Rendered(entries[k]) # {}
    /\ \A k \in 1..(Len(entries) - 1) :
          CreatedOfEntry(entries[k]) >= CreatedOfEntry(entries[k + 1])
    /\ \A i \in 1..Len(StoredSignals) :
          (\A k \in 1..Len(entries) : i \notin Rendered(entries[k])) =>
              \A k \in 1..Len(entries) :
                  created_key(StoredSignals[i]) <= CreatedOfEntry(entries[k])

\* C16: write_report completes for every store a run saves, stores with
\* migrated older records included, and the report it writes lists the
\* stored signals by descending created_at, at most 500 of them, the newest.
C16_ReportCompletesNewestFirst ==
    \A p \in Procs :
        /\ proc[p].raised_line \notin 494..509
        /\ proc[p].pc \in {"summary", "done"} =>
              /\ disk_report.kind = "json"
              /\ ReportListsNewest(disk_report.data.entries)

\* the categories whose pattern matches the text
Matching(text) == {i \in 1..Len(TRIGGERS) : HasAnyWord(text, TRIGGERS[i].words)}

\* C13: for every text, a missing or empty one included, classify_trigger
\* returns one of the six labels, and "Other" exactly when no category's
\* pattern matches.
C13_ClassifierTotal ==
    (call.fn = "classify_trigger" /\ call.done) =>
        /\ call.out \in {"Funding & Facilities", "Policy & Strategy", "People Moves",
                         "Programs & Press", "Procurement", "Other"}
        /\ (call.out = "Other") <=> (Matching(or_empty(call.args)) = {})

\* the classifier has been called without a text and has answered "Other"
C13_Witness ==
    /\ call.fn = "classify_trigger" /\ call.done
    /\ call.args = <<>>
    /\ call.out = "Other"

CategoryOrder ==
    <<"Funding & Facilities", "Policy & Strategy", "People Moves",
      "Programs & Press", "Procurement">>

PatternOf(name) ==
    TRIGGERS[CHOOSE i \in 1..Len(TRIGGERS) : TRIGGERS[i].name = name].words

\* C14: when the patterns of several categories match, classify_trigger
\* returns the first of them in the order Funding & Facilities, Policy &
\* Strategy, People Moves, Programs & Press, Procurement, however many
\* keywords of each the text holds.
C14_FirstMatchWins ==
    (call.fn = "classify_trigger" /\ call.done) =>
        LET hits == {k \in 1..Len(CategoryOrder) :
                        HasAnyWord(or_empty(call.args), PatternOf(CategoryOrder[k]))}
        IN  hits # {} =>
                call.out = CategoryOrder[CHOOSE k \in hits : \A m \in hits : k <= m]

\* a title with one keyword of Funding & Facilities and three of Programs &
\* Press has been classified Funding & Facilities
C14_Witness ==
    /\ call.fn = "classify_trigger" /\ call.done
    /\ call.args = <<"New bond, robotics, VEX and engineering">>
    /\ Matching(call.args[1]) = {1, 4}
    /\ call.out = "Funding & Facilities"

Timeless(sc) ==
    [budget |-> sc.breakdown.budget, stem |-> sc.breakdown.stem,
     fit |-> sc.breakdown.fit, source |-> sc.breakdown.source,
     rest |-> sc.total - sc.breakdown.recency]

SameAge(a) ==
    \/ ~IsIso(a.published_a) /\ ~IsIso(a.published_b)
    \/ /\ IsIso(a.published_a) /\ IsIso(a.published_b)
       /\ a.now_a - a.published_a[1] = a.now_b - a.published_b[1]

BreakdownSum(b) == b.recency + b.budget + b.stem + b.fit + b.source

\* C18: every signal of the persisted store that has a score and a breakdown
\* has a score equal to the sum of the five values of its breakdown, the
\* signals whose breakdown the migration added later included.
C18_ScoreIsBreakdownSum ==
    \A i \in 1..Len(StoredSignals) :
        {"score", "breakdown"} \subseteq DOMAIN StoredSignals[i] =>
            StoredSignals[i].score = BreakdownSum(StoredSignals[i].breakdown)

\* a process is about to write the store, or the queue, at the end of its run
Saving(p, step) == proc[p].pc = step /\ proc'[p].pc # step

\* C19: in runs that follow one another on a readable store, every step
\* leaves the persisted signals a prefix of what it persists: none is
\* removed or moved, every field a signal had keeps its value, the only
\* fields added are trigger and breakdown, and the final write of a run adds
\* the signals the run inserted, after the ones that were there.
C19_StoreGrowsByAppending ==
    [][/\ Len(StoredSignals) <= Len(StoredSignals')
       /\ \A i \in 1..Len(StoredSignals) : Keeps(StoredSignals[i], StoredSignals'[i])
       /\ \A p \in Procs :
             Saving(p, "save_db") =>
                 StoredSignals' = StoredSignals \o proc[p].new_signals
       /\ (\A p \in Procs : ~Saving(p, "save_db")) =>
             Len(StoredSignals') = Len(StoredSignals)]_vars

\* a run has loaded a store with signals, some of them lacking fields, has
\* inserted signals of its own and has written the store
C19_Witness ==
    /\ proc["p1"].pc = "save_intake"
    /\ Lacking(proc["p1"].loaded)
    /\ \E i \in 1..Len(proc["p1"].loaded) : ~needs_migration(proc["p1"].loaded[i])
    /\ proc["p1"].new_signals # <<>>
    /\ Len(StoredSignals) = Len(proc["p1"].loaded) + Len(proc["p1"].new_signals)

HandOffs(sigs) == [k \in 1..Len(sigs) |-> HandOff(sigs[k])]

\* C20: the queue a run writes is the queue that was persisted before,
\* unchanged, followed by the records of the signals the run inserted with a
\* score of at least its threshold, in the order of insertion; no other step
\* changes the persisted queue.
C20_QueueGrowsByAppending ==
    [][\A p \in Procs :
          /\ Saving(p, "save_intake") =>
                QueuedRecords' = QueuedRecords \o
                    HandOffs(Above(proc[p].new_signals, proc[p].conf.threshold))
          /\ (\A q \in Procs : ~Saving(q, "save_intake")) =>
                QueuedRecords' = QueuedRecords]_vars

\* a second run has found records in the queue, has inserted signals on both
\* sides of its threshold and has written the queue
C20_Witness ==
    /\ runs = 2
    /\ proc["p1"].pc = "report"
    /\ proc["p1"].intake_mark > 0
    /\ Len(QueuedRecords) > proc["p1"].intake_mark
    /\ Len(proc["p1"].new_signals) >
          Len(Above(proc["p1"].new_signals, proc["p1"].conf.threshold))

IdsOf(sigs) == {sigs[i].id : i \in 1..Len(sigs)}

\* C17: a signal of the persisted store disappears from it only at a step of
\* a run during which another run was in progress: with one run at a time no
\* persisted signal is lost.  (That two runs at once do lose one is the
\* state C17_Witness.)
C17_LossOnlyWhenRunsOverlap ==
    [][~(IdsOf(StoredSignals) \subseteq IdsOf(StoredSignals')) =>
          \E p \in Procs : proc[p].overlapped /\ proc'[p].pc # proc[p].pc]_vars

\* two runs have loaded the store before either wrote it and both have
\* ended; a signal that one of them inserted and wrote is not in the store
C17_Witness ==
    /\ \A p \in Procs : proc[p].pc = "done" /\ proc[p].overlapped
    /\ \E p \in Procs : \E k \in 1..Len(proc[p].new_signals) :
          proc[p].new_signals[k].id \notin IdsOf(StoredSignals)

\* C21: a retrieval that fails, by an error of the fetch or by a response
\* that is not a well-formed feed, yields no item, raises nothing past
\* run_radar and leaves one failure line for its pair in the log.
C21_FetchFailureLogged ==
    \A p \in Procs :
        proc[p].last_fetch.kind \in {"error", "malformed"} =>
            /\ proc[p].last_fetch.added = 0
            /\ proc[p].raised_line = 0
            /\ proc[p].last_fetch.logged = 1
            /\ \E i \in 1..Len(proc[p].log) :
                  proc[p].log[i] = [kind |-> "fetch_error",
                                    district |-> Watch[proc[p].last_fetch.w].district,
                                    engine |-> ENGINES[proc[p].last_fetch.e]]

C23_NothingOlderThanCutoff ==
    \A p \in Procs :
        proc[p].pc \in AfterMigrate \ {"done"} =>
            /\ proc[p].since_cutoff = now - proc[p].conf.since_days
            /\ \A k \in 1..Len(proc[p].new_signals) :
                  /\ IsIso(proc[p].new_signals[k].published)
                  /\ proc[p].new_signals[k].published[1] >= proc[p].since_cutoff
            /\ \A k \in (proc[p].intake_mark + 1)..Len(proc[p].intake.to_scout) :
                  proc[p].intake.to_scout[k].published[1] >= proc[p].since_cutoff

\* a run on an empty store has looked at a feed whose first item is older
\* than the cutoff, has inserted the items that follow it, and has written
\* the store and the queue without the old one
C23_Witness ==
    /\ proc["p1"].pc = "report"
    /\ proc["p1"].loaded = <<>>
    /\ proc["p1"].last_fetch.kind = "rss"
    /\ proc["p1"].new_signals # <<>>
    /\ QueuedRecords # <<>>
    /\ \A i \in 1..Len(StoredSignals) : StoredSignals[i].title # ITEM_OLD.title

\* the signals the latest fetch of a process has inserted
LastAdded(p) ==
    SubSeq(proc[p].new_signals,
           Len(proc[p].new_signals) - proc[p].last_fetch.added + 1,
           Len(proc[p].new_signals))

\* C24: of the feed of one (district, engine) pair only the first
\* max_items_per items are looked at: every signal the pair inserts comes
\* from one of them, an item among them that is too old or known is not
\* made up for by a later one, and the pair inserts at most max_items_per
\* signals.
C24_OnlyFirstItemsConsidered ==
    \A p \in Procs :
        proc[p].last_fetch.kind = "rss" =>
            /\ proc[p].last_fetch.added <= proc[p].conf.max_items_per
            /\ \E xml \in Results :
                  /\ xml.kind = "rss"
                  /\ \A k \in 1..Len(LastAdded(p)) :
                        \E i \in 1..Min(Len(xml.items), proc[p].conf.max_items_per) :
                            /\ xml.items[i].title = LastAdded(p)[k].title
                            /\ xml.items[i].link = LastAdded(p)[k].link

\* with a cap of 2 a pair has answered three items, the first of them too
\* old: the second has been inserted and the third, new and recent, has not
C24_Witness ==
    /\ proc["p1"].conf.max_items_per = 2
    /\ proc["p1"].last_fetch.kind = "rss"
    /\ proc["p1"].last_fetch.added = 1
    /\ LastAdded("p1")[1].title = ITEM_BOND.title
    /\ \A i \in 1..Len(Signals(proc["p1"].db)) :
          Signals(proc["p1"].db)[i].title \notin {ITEM_OLD.title, ITEM_LUNCH.title}

\* the lines of a kind among the lines a run has logged
LinesOf(p, kind) == SelectSeq(proc[p].log, LAMBDA l : l.kind = kind)

\* the indices of the n best signals: one after the other, the earliest of
\* the highest-scoring signals not yet taken
RECURSIVE TopPicks(_, _, _)
TopPicks(sigs, taken, n) ==
    LET rest == (1..Len(sigs)) \ taken
    IN  IF n = 0 \/ rest = {} THEN <<>>
        ELSE LET best == CHOOSE i \in rest : \A j \in rest :
                            \/ sigs[j].score < sigs[i].score
                            \/ sigs[j].score = sigs[i].score /\ i <= j
             IN  <<best>> \o TopPicks(sigs, taken \cup {best}, n - 1)

\* C25: when a run that inserted signals has written the store, the queue
\* and the report, the summary it logs has for every category the number of
\* inserted signals of that category, the counts add up to the number of
\* inserted signals, and the top list is the 5 inserted signals with the
\* highest scores, in descending order, equal scores in the order of
\* insertion.
C25_SummaryCountsAndTop ==
    \A p \in Procs :
        (proc[p].pc = "done" /\ proc[p].new_signals # <<>>) =>
            LET new == proc[p].new_signals
                counts == LinesOf(p, "count")
                tops == LinesOf(p, "top")
                picks == TopPicks(new, {}, 5)
                Sum[k \in 0..Len(counts)] ==
                    IF k = 0 THEN 0 ELSE Sum[k - 1] + counts[k].n
            IN  /\ disk_db = FileOf(proc[p].db)
                /\ disk_intake = FileOf(proc[p].intake)
                /\ disk_report.kind = "json"
                /\ Sum[Len(counts)] = Len(new)
                /\ \A k \in 1..Len(counts) :
                      counts[k].n = Cardinality({i \in 1..Len(new) :
                                                    new[i].trigger = counts[k].trigger})
                /\ \A i \in 1..Len(new) : \E k \in 1..Len(counts) :
                      counts[k].trigger = new[i].trigger
                /\ \A k, m \in 1..Len(counts) :
                      counts[k].trigger = counts[m].trigger => k = m
                /\ Len(tops) = Len(picks)
                /\ \A k \in 1..Len(tops) :
                      /\ tops[k].score = new[picks[k]].score
                      /\ tops[k].district = new[picks[k]].district
                      /\ tops[k].title = new[picks[k]].title

\* a run has inserted more than 5 signals, among them three of the score
\* that comes fifth: the summary lists 5, the two of that score inserted
\* first included, and leaves the third out
C25_Witness ==
    /\ proc["p1"].pc = "done"
    /\ Len(proc["p1"].new_signals) > 5
    /\ Len(LinesOf("p1", "top")) = 5
    /\ LinesOf("p1", "top")[4].score = LinesOf("p1", "top")[5].score
    /\ LinesOf("p1", "top")[4].district # LinesOf("p1", "top")[5].district
    /\ Cardinality({i \in 1..Len(proc["p1"].new_signals) :
          proc["p1"].new_signals[i].score = LinesOf("p1", "top")[5].score}) = 3
    /\ Len(LinesOf("p1", "count")) >= 2

\* the record of a signal is in the persisted queue
Queued(sig) ==
    \E i \in 1..Len(QueuedRecords) :
        /\ QueuedRecords[i].state = sig.state
        /\ QueuedRecords[i].district = sig.district
        /\ QueuedRecords[i].title = sig.title
        /\ QueuedRecords[i].link = sig.link

\* C26: when a run has been stopped between the write of the store and the
\* write of the queue, and a later run that fetches the same items has
\* completed, every signal the stopped run inserted with a score of at least
\* the threshold is in the store and has a record in the queue.
C26_StoppedRunIsMadeUpFor ==
    \A p, q \in Procs :
        (proc[p].pc = "interrupted" /\ proc[q].pc = "done") =>
            \A k \in 1..Len(proc[p].new_signals) :
                proc[p].new_signals[k].score >= proc[p].conf.threshold =>
                    /\ proc[p].new_signals[k].id \in IdsOf(StoredSignals)
                    /\ Queued(proc[p].new_signals[k])

\* the slugs under which a district list knows its districts
SlugsOf(ds) ==
    {scout_slug_of(ds[i].district) : i \in 1..Len(ds)}
        \cup UNION {{scout_slug_of(ds[i].aliases[a]) : a \in 1..Len(ds[i].aliases)} :
                       i \in 1..Len(ds)}

\* C27: upsert_districts adds a record only for a district whose slug no
\* district of the state has as name or alias, wherever that district is in
\* the list; a second call with the same list adds nothing and leaves the
\* number of records as it is.
C27_UpsertIdempotent ==
    (call.fn = "upsert_twice" /\ call.done) =>
        /\ \A k \in (Len(call.args.st) + 1)..Len(call.out.first.districts) :
              scout_slug_of(call.out.first.districts[k].district) \notin
                  SlugsOf(SubSeq(call.out.first.districts, 1, k - 1))
        /\ call.out.second.added = 0
        /\ Len(call.out.second.districts) = Len(call.out.first.districts)


=============================================================================
